---- MODULE Spec2Model ----
(***************************************************************************)
(* Oligool: the alignment viewer (MSAViewer) and the App that mounts it.   *)
(*                                                                         *)
(* Two builds of MSAViewer exist in the repository:                        *)
(*   "select"  src/unnamed/part_001   (minimap: drag-to-select + resize)   *)
(*   "pan"     src/frontend/src/components/MSAViewer.tsx                   *)
(*             (minimap: pan + resize + outside-click jump)                *)
(* The variable `variant` says which build is running.                     *)
(*                                                                         *)
(* JavaScript numbers are modelled as exact rationals <<n, d>> (d > 0, in  *)
(* lowest terms); pixel quantities are rationals too.                      *)
(***************************************************************************)
EXTENDS Integers, Sequences, FiniteSets, TLC

(* ---------------------------------------------------------------------- *)
(* Exact rational arithmetic for the JavaScript number operations         *)
(* ---------------------------------------------------------------------- *)
Abs(x) == IF x < 0 THEN -x ELSE x

RECURSIVE Gcd(_, _)
Gcd(a, b) == IF b = 0 THEN a ELSE Gcd(b, a % b)

Rat(n, d) ==
    LET g == Gcd(Abs(n), Abs(d))
        s == IF d < 0 THEN -1 ELSE 1
    IN  <<(s * n) \div g, (s * d) \div g>>

Whole(n) == <<n, 1>>
Zero == <<0, 1>>
One == <<1, 1>>

\* a * b, cancelling across before multiplying
Mul(a, b) ==
    LET g1 == Gcd(Abs(a[1]), b[2])
        g2 == Gcd(Abs(b[1]), a[2])
    IN  Rat((a[1] \div g1) * (b[1] \div g2), (a[2] \div g2) * (b[2] \div g1))

\* a / b for b # 0
Div(a, b) == Mul(a, IF b[1] < 0 THEN <<-b[2], -b[1]>> ELSE <<b[2], b[1]>>)

Add(a, b) ==
    LET g == Gcd(a[2], b[2])
    IN  Rat(a[1] * (b[2] \div g) + b[1] * (a[2] \div g), (a[2] \div g) * b[2])

Neg(a) == <<-a[1], a[2]>>
Sub(a, b) == Add(a, Neg(b))

\* n1/d1 < n2/d2 by comparing the continued fractions, so that no product is formed
RECURSIVE LtFrac(_, _, _, _)
LtFrac(n1, d1, n2, d2) ==
    LET q1 == n1 \div d1
        q2 == n2 \div d2
        r1 == n1 % d1
        r2 == n2 % d2
    IN  IF q1 # q2 THEN q1 < q2
        ELSE IF r2 = 0 THEN FALSE
        ELSE IF r1 = 0 THEN TRUE
        ELSE LtFrac(d2, r2, d1, r1)

Lt(a, b) == LtFrac(a[1], a[2], b[1], b[2])
Le(a, b) == ~Lt(b, a)

\* Math.max, Math.min, Math.abs
MathMax(a, b) == IF Lt(a, b) THEN b ELSE a
MathMin(a, b) == IF Lt(b, a) THEN b ELSE a
MathAbs(a) == <<Abs(a[1]), a[2]>>

Clamp(x, lo, hi) == MathMax(lo, MathMin(hi, x))

\* Math.floor, Math.ceil (to an integer)
MathFloor(a) == a[1] \div a[2]
MathCeil(a) == -((-a[1]) \div a[2])

(* ---------------------------------------------------------------------- *)
(* Program constants                                                      *)
(* ---------------------------------------------------------------------- *)
LABEL_WIDTH == 140
BP_THRESHOLD == 100
HYSTERESIS == 15
InitialAvailableWidth == 900
\* the 0.5 % floor of viewFraction and of a committed selection
MinViewFraction == Rat(5, 1000)
\* the "blue box visible" threshold of the select build
BlueBoxThreshold == Rat(99, 100)
ZoomInFactor == Rat(75, 100)
ZoomOutFactor == Rat(133, 100)
WheelOutFactor == Rat(115, 100)
WheelInFactor == Rat(87, 100)
HandleZonePx == 10
MinHandlePx == 40

(* ---------------------------------------------------------------------- *)
(* Bounds of the model                                                    *)
(* ---------------------------------------------------------------------- *)
MaxSearches == 2      \* handleSearch calls in one behaviour
MaxSessions == 2      \* drag sessions attached to the document at once
MaxDowns == 2         \* minimap pointer-downs in one behaviour
MaxZoomOps == 1       \* zoomIn / zoomOut / wheel zooms in one behaviour
MaxOps == 2           \* slider, toggle, resize and user-scroll inputs in one behaviour
MaxZoomCalls == 4     \* zoomIn / zoomOut calls in one behaviour of the zoom specification

\* alignment widths (seqLen) the search service may return
SeqLens == {60, 168}
\* the alignment width of the viewer-only specification
ViewSeqLens == {168}
\* container widths the ResizeObserver may report
Widths == {900, 520}
\* pointer x positions, in px from the left edge of the sequence area
DownPx == {190, 760}
MovePx == {0, 760}
\* the pointer x position of a move in the App-level specification
LifeMovePx == {760}
\* zoom slider positions (multiples of its 0.005 step)
SliderValues == {Rat(1, 2)}
\* wheel pointer offsets into the sequence area, px
WheelPx == {380}
\* the minimap specification: slider positions (a window narrower than the
\* 40 px centre handle, and half the alignment) and pointer-down positions
MinimapSliderValues == {Rat(20, 1000), Rat(1, 2)}
MinimapDownPx == {0, 8, 26, 190, 570, 760}
\* the slider position of the zoom specification, three zoomIn calls above the floor
ZoomSliderValues == {Rat(1, 100)}
\* the zoom specification presses zoomOut from this viewFraction upwards
ZoomOutFrom == Rat(1, 4)
\* the alignment width of the mode controller's specification, and slider
\* positions that put its visibleBases at 84, 85, 110, 115 and 116
ModeSeqLens == {200}
ModeSliderValues == {Rat(420, 1000), Rat(425, 1000), Rat(550, 1000), Rat(575, 1000), Rat(580, 1000)}

Variants == {"select", "pan"}

\* the alignment texts: up to MaxLines lines of up to MaxLineLen characters
MaxLines == 3
MaxLineLen == 2
ParseChars == {">", " ", "A"}
Lines == UNION {[1..n -> ParseChars] : n \in 0..MaxLineLen}
\* the primer requests: at most MaxFetches unanswered at a time, over two
\* visible slices, a desiredLen the user may set once, and two answers
MaxFetches == 2
FetchSlices == {[seq |-> <<"A", "-", "C", "G">>, start |-> 0],
                [seq |-> <<"C", "G", "T">>, start |-> 2]}
DesiredLens == {20}
FetchAnswers == {[p1 |-> [start |-> 0, end |-> 1], p2 |-> [start |-> 1, end |-> 3]],
                 [p1 |-> [start |-> 0, end |-> 2], p2 |-> [start |-> 2, end |-> 3]]}

\* the alignment lengths under the writers of viewFraction: one the Sequence
\* button answers with a viewFraction of a half, one of more than
\* (BP_THRESHOLD - HYSTERESIS - 1) / MinViewFraction = 16800 columns
RangeSeqLens == {168, 20000}

\* the alignments of the selection statistics: a reference row of up to
\* MaxStatsLen characters, alone or under a longer second row
MaxStatsLen == 3
StatsChars == {"a", "C", "g", "T", "-", "N"}
StatsAlignments ==
    {<<q>> : q \in UNION {[1..n -> StatsChars] : n \in 1..MaxStatsLen}}
    \cup {<<q, [i \in 1..(MaxStatsLen + 1) |-> "A"]>> :
                q \in UNION {[1..n -> StatsChars] : n \in 1..MaxStatsLen}}
StatsSliderValues == {Rat(1, 2)}

\* the widths the container takes there: the label column alone, and the
\* initial width
ParseWidths == {LABEL_WIDTH, InitialAvailableWidth}
Texts == UNION {[1..n -> Lines] : n \in 1..MaxLines} \ {<< <<>> >>}

\* the longest row of an alignment whose content is kept, and the largest raw
\* index a primer answer names (one beyond the longest row)
MaxRowLen == 4
MaxIdx == 5
\* the visible slices of a reference row, and the columns they start at
ScenarioC == <<"A", "C", "-", "G", "T", "A", "C">>
SliceRows == UNION {[1..n -> {"A", "-"}] : n \in 0..MaxRowLen} \cup {ScenarioC}
SliceStarts == {0, 2}
\* the alignments whose rows are kept: a reference row and one other row of up
\* to MaxPaintLen characters, in both cases, with gaps anywhere
MaxPaintLen == 3
PaintAlignments ==
    {<<q, s>> : q \in UNION {[1..n -> {"A", "-"}] : n \in 1..MaxPaintLen},
                s \in UNION {[1..n -> {"a", "c", "G", "-"}] : n \in 0..MaxPaintLen}}
\* the primers props of the viewer: two spans of columns
PaintPrimers == {[p1 |-> [start |-> 0, end |-> 2], p2 |-> [start |-> 2, end |-> 3]]}
\* the spans [start, end) a primer answer may name
RawSpans == {sp \in [start : 0..MaxIdx, end : 0..MaxIdx] : sp.start <= sp.end}
\* the answers to a primer request: the first primer ends at the split the
\* second one starts at
PrimerAnswers == {a \in [p1 : RawSpans, p2 : RawSpans] : a.p2.start = a.p1.end}

VARIABLES
    variant,            \* which MSAViewer build is running
    step, input, alignment, blastHits, blastMeta, requests,   \* App state
    instance,           \* id of the mounted MSAViewer instance (0: none yet)
    availableWidth, scrollLeft, viewFraction, viewMode, selectionRange,
    isDragging, targetScrollRef,
    domScrollLeft,      \* scrollRef.current.scrollLeft, the pane's real scroll position
    scrollEventPending, \* a scroll event of the pane is queued
    effectsPending,     \* a render was committed whose effects have not run yet
    listeners,          \* the drag sessions' mousemove/mouseup pairs on document
    nSearch, nDown, nZoom, nOps,   \* budgets
    lastOp,             \* the last handler that ran (history)
    modeLog,            \* the runs of the auto-switch effect (history): for each
                        \* run the visibleBases it read, the mode it found and
                        \* the mode it left; Null where no record is kept
    zoomLog,            \* the zoomIn / zoomOut calls (history): for each call
                        \* viewFraction before and after; Null where no record
                        \* is kept
    sequences,          \* the parsed rows of the alignment, each a sequence of
                        \* characters; <<>> where the rows' content is not kept
    primers,            \* the viewer's primers prop: Null or the two mapped spans
    canvas,             \* what the last draw / drawMinimap painted: the surface
                        \* and the paint of every cell; Null before the first
    calls,              \* the mapUngappedToGapped calls of the last primer
                        \* response: index, row and result of each
    data,               \* the QueryViewer's data prop: Null or the visible slice
                        \* of the reference row and its start column
    showMoligizer,      \* whether the QueryViewer's Moligizer panel is open
    text,               \* the alignment prop as text, a sequence of lines; Null
                        \* where the text is not kept
    ids,                \* the labels of the parsed rows, row by row
    visibleQuery,       \* the last value handed to onVisibleQueryChange; Null
                        \* before the first
    debounce,           \* the QueryViewer's pending 400 ms timer: Null or the
                        \* closure of the fetchPrimers it will call
    fetches,            \* the primer requests in flight, each with the closure
                        \* it was made in; Null where a request is answered in
                        \* the step that makes it
    desiredLen,         \* the QueryViewer's desiredLen parameter
    answered            \* the desiredLen of the request whose answer was handled
                        \* last (history); Null before the first and after a failure

appVars == <<step, input, alignment, blastHits, blastMeta, requests>>
viewVars == <<scrollLeft, viewFraction, viewMode, selectionRange>>
vars == <<variant, step, input, alignment, blastHits, blastMeta, requests, instance,
          availableWidth, scrollLeft, viewFraction, viewMode, selectionRange,
          isDragging, targetScrollRef, domScrollLeft, scrollEventPending,
          effectsPending, listeners, nSearch, nDown, nZoom, nOps, lastOp, modeLog, zoomLog,
          sequences, primers, canvas, calls, data, showMoligizer,
          text, ids, visibleQuery, debounce, fetches, desiredLen, answered>>

\* the alignment text with the labels parsed from it, and the viewer's output
parseVars == <<text, ids, visibleQuery>>
\* the QueryViewer's primer requests
fetchVars == <<debounce, fetches, desiredLen, answered>>
\* the rows' content, the overlay drawn from it and the primer mapping
content == <<sequences, primers, canvas, calls, data, showMoligizer, parseVars, fetchVars>>

\* a nullable value is <<>> (null) or <<v>>
Null == <<>>
Some(v) == <<v>>

(* ---------------------------------------------------------------------- *)
(* Derived geometry of a render                                           *)
(* ---------------------------------------------------------------------- *)
mounted == alignment # 0 \/ text # Null
seqLen == alignment
SeqAreaW(aw) == Whole(aw - LABEL_WIDTH)
seqAreaW == SeqAreaW(availableWidth)
TotalVirtualW(aw, vf) == Div(SeqAreaW(aw), vf)
totalVirtualW == TotalVirtualW(availableWidth, viewFraction)
visibleBases == Mul(Whole(seqLen), viewFraction)
StartFrac(aw, sl, vf) ==
    IF Lt(Zero, TotalVirtualW(aw, vf)) THEN Div(sl, TotalVirtualW(aw, vf)) ELSE Zero
startFrac == StartFrac(availableWidth, scrollLeft, viewFraction)
endFrac == MathMin(One, Add(startFrac, viewFraction))
\* the first and last alignment column of the viewport
startCol ==
    LET f == MathFloor(Mul(startFrac, Whole(seqLen)))
    IN  IF f < 0 THEN 0 ELSE f
endCol ==
    LET c == MathCeil(Mul(endFrac, Whole(seqLen))) - 1
    IN  IF seqLen - 1 < c THEN seqLen - 1 ELSE c
\* the largest scroll position the pane's content allows
MaxScroll(aw, vf) == MathMax(Zero, Sub(TotalVirtualW(aw, vf), SeqAreaW(aw)))

(* ---------------------------------------------------------------------- *)
(* Minimap drag: what pointer-down decides                                *)
(* ---------------------------------------------------------------------- *)
\* px of the pointer relative to the sequence area, as a fraction of the minimap
MouseXFrac(v, px, mmSeqW) ==
    IF v = "select" THEN Clamp(Div(Whole(px), mmSeqW), Zero, One)
    ELSE Div(Whole(px), mmSeqW)

CurStart(aw, sl, vf) == Div(sl, Div(SeqAreaW(aw), vf))
CurEnd(aw, sl, vf) == Add(CurStart(aw, sl, vf), vf)
HandleZone(mmSeqW) == Div(Whole(HandleZonePx), mmSeqW)

HitsLeft(m, curStart, curEnd, mmSeqW) ==
    Lt(MathAbs(Sub(m, curStart)), HandleZone(mmSeqW)) /\ Lt(m, curEnd)
HitsRight(m, curStart, curEnd, mmSeqW) ==
    Lt(MathAbs(Sub(m, curEnd)), HandleZone(mmSeqW)) /\ Lt(curStart, m)

\* the centre handle of the pan build, widened to MinHandlePx
IsCenterHit(m, curStart, curEnd, mmSeqW) ==
    LET center == Div(Add(curStart, curEnd), Whole(2))
        minHandleWFrac == Div(Whole(MinHandlePx), mmSeqW)
        effectiveHandleWFrac == MathMax(Sub(curEnd, curStart), minHandleWFrac)
    IN  Lt(MathAbs(Sub(m, center)), Div(effectiveHandleWFrac, Whole(2)))

\* a classification that tests the right handle before the left one
DragTypeRightFirst(v, m, curStart, curEnd, vf, mmSeqW) ==
    IF v = "select" THEN
        IF Lt(vf, BlueBoxThreshold) THEN
            IF HitsRight(m, curStart, curEnd, mmSeqW) THEN "right"
            ELSE IF HitsLeft(m, curStart, curEnd, mmSeqW) THEN "left"
            ELSE "select"
        ELSE "select"
    ELSE
        IF HitsRight(m, curStart, curEnd, mmSeqW) THEN "right"
        ELSE IF HitsLeft(m, curStart, curEnd, mmSeqW) THEN "left"
        ELSE IF (Le(curStart, m) /\ Le(m, curEnd)) \/ IsCenterHit(m, curStart, curEnd, mmSeqW)
             THEN "pan"
        ELSE "jump"

\* a classification whose select build tests the handles at every zoom level
DragTypeUngated(v, m, curStart, curEnd, vf, mmSeqW) ==
    IF HitsLeft(m, curStart, curEnd, mmSeqW) THEN "left"
    ELSE IF HitsRight(m, curStart, curEnd, mmSeqW) THEN "right"
    ELSE IF v = "select" THEN "select"
    ELSE IF (Le(curStart, m) /\ Le(m, curEnd)) \/ IsCenterHit(m, curStart, curEnd, mmSeqW)
         THEN "pan"
    ELSE "jump"

\* "jump" is the pan build's click outside the window: jump, then pan
DragType(v, m, curStart, curEnd, vf, mmSeqW) ==
    IF v = "select" THEN
        IF Lt(vf, BlueBoxThreshold) THEN
            IF HitsLeft(m, curStart, curEnd, mmSeqW) THEN "left"
            ELSE IF HitsRight(m, curStart, curEnd, mmSeqW) THEN "right"
            ELSE "select"
        ELSE "select"
    ELSE
        IF HitsLeft(m, curStart, curEnd, mmSeqW) THEN "left"
        ELSE IF HitsRight(m, curStart, curEnd, mmSeqW) THEN "right"
        ELSE IF (Le(curStart, m) /\ Le(m, curEnd)) \/ IsCenterHit(m, curStart, curEnd, mmSeqW)
             THEN "pan"
        ELSE "jump"

\* a jump that centres the window at m without keeping it inside [0, 1]
JumpStartUnclamped(m, vf) == Sub(m, Div(vf, Whole(2)))

JumpStart(m, vf) ==
    MathMax(Zero, MathMin(Sub(One, vf), Sub(m, Div(vf, Whole(2)))))

\* the closure a pointer-down attaches to document (onMove and onUp share it)
\* (jumped: the pair is the one the outside-click branch attaches)
Session(inst, dragType, startClientX, origStart, origEnd, curSeqAreaW, mmSeqW, origMouseFrac, jumped) ==
    [inst |-> inst, dragType |-> dragType, startClientX |-> startClientX,
     origStart |-> origStart, origEnd |-> origEnd, curSeqAreaW |-> curSeqAreaW,
     mmSeqW |-> mmSeqW, origMouseFrac |-> origMouseFrac, jumped |-> jumped]

\* the closure belongs to the instance that is mounted now
Alive(s) == mounted /\ s.inst = instance

(* ---------------------------------------------------------------------- *)
(* Minimap drag: the move handler                                         *)
(* ---------------------------------------------------------------------- *)
DeltaFrac(s, px) == Div(Whole(px - s.startClientX), s.mmSeqW)

ResizeLeftStart(origStart, origEnd, deltaFrac) ==
    MathMax(Zero, MathMin(Sub(origEnd, MinViewFraction), Add(origStart, deltaFrac)))
ResizeRightEnd(origStart, origEnd, deltaFrac) ==
    MathMin(One, MathMax(Add(origStart, MinViewFraction), Add(origEnd, deltaFrac)))

\* <<newStart, newEnd>> of a pan / left / right move
PanBounds(origStart, origEnd, deltaFrac) ==
    LET width == Sub(origEnd, origStart)
        s1 == Add(origStart, deltaFrac)
        e1 == Add(origEnd, deltaFrac)
        s2 == IF Lt(s1, Zero) THEN Zero ELSE s1
        e2 == IF Lt(s1, Zero) THEN width ELSE e1
    IN  IF Lt(One, e2) THEN <<Sub(One, width), One>> ELSE <<s2, e2>>

MoveBounds(s, deltaFrac) ==
    IF s.dragType = "pan" THEN PanBounds(s.origStart, s.origEnd, deltaFrac)
    ELSE IF s.dragType = "left"
         THEN <<ResizeLeftStart(s.origStart, s.origEnd, deltaFrac), s.origEnd>>
    ELSE <<s.origStart, ResizeRightEnd(s.origStart, s.origEnd, deltaFrac)>>

NewVF(b) == MathMax(MinViewFraction, Sub(b[2], b[1]))
NewSL(b, curSeqAreaW) == Mul(b[1], Div(curSeqAreaW, NewVF(b)))

\* the part of the viewer's state the drag handlers write
View(vf, sl, tgt, sel, drag) ==
    [viewFraction |-> vf, scrollLeft |-> sl, targetScrollRef |-> tgt,
     selectionRange |-> sel, isDragging |-> drag]
curView == View(viewFraction, scrollLeft, targetScrollRef, selectionRange, isDragging)

\* an onMove whose select branch does not clamp the pointer position
OnMoveUnclamped(s, px, st) ==
    IF ~Alive(s) THEN st
    ELSE IF s.dragType = "select" THEN
        [st EXCEPT !.selectionRange =
            Some([start |-> s.origMouseFrac,
                  end |-> Add(s.origMouseFrac, DeltaFrac(s, px))])]
    ELSE
        LET b == MoveBounds(s, DeltaFrac(s, px))
        IN  [st EXCEPT !.viewFraction = NewVF(b),
                       !.scrollLeft = NewSL(b, s.curSeqAreaW),
                       !.targetScrollRef = Some(NewSL(b, s.curSeqAreaW))]

\* one onMove closure; a closure of an unmounted instance sets state of a dead
\* component, which React ignores
OnMove(s, px, st) ==
    IF ~Alive(s) THEN st
    ELSE IF s.dragType = "select" THEN
        [st EXCEPT !.selectionRange =
            Some([start |-> s.origMouseFrac,
                  end |-> Clamp(Add(s.origMouseFrac, DeltaFrac(s, px)), Zero, One)])]
    ELSE
        LET b == MoveBounds(s, DeltaFrac(s, px))
        IN  [st EXCEPT !.viewFraction = NewVF(b),
                       !.scrollLeft = NewSL(b, s.curSeqAreaW),
                       !.targetScrollRef = Some(NewSL(b, s.curSeqAreaW))]

(* ---------------------------------------------------------------------- *)
(* Minimap drag: the up handler                                           *)
(* ---------------------------------------------------------------------- *)
SelMin(sel) == MathMin(sel.start, sel.end)
SelMax(sel) == MathMax(sel.start, sel.end)
\* a selection narrower than the floor is an accidental click
IsClick(sel) == Lt(Sub(SelMax(sel), SelMin(sel)), MinViewFraction)

\* "Apply zoom" of onUp: the viewport that shows [s, e]
SelectionVF(s, e) == Sub(e, s)
SelectionSL(s, e, curSeqAreaW) == Mul(s, Div(curSeqAreaW, SelectionVF(s, e)))

OnUp(s, st) ==
    IF ~Alive(s) THEN st
    ELSE IF s.dragType # "select" \/ st.selectionRange = Null
         THEN [st EXCEPT !.isDragging = FALSE, !.selectionRange =
                    IF s.dragType = "select" THEN Null ELSE @]
    ELSE
        LET sel == st.selectionRange[1]
            lo == SelMin(sel)
            hi == SelMax(sel)
        IN  IF IsClick(sel)
            THEN [st EXCEPT !.isDragging = FALSE, !.selectionRange = Null]
            ELSE [st EXCEPT !.isDragging = FALSE, !.selectionRange = Null,
                            !.viewFraction = SelectionVF(lo, hi),
                            !.scrollLeft = SelectionSL(lo, hi, s.curSeqAreaW),
                            !.targetScrollRef = Some(SelectionSL(lo, hi, s.curSeqAreaW))]

\* document dispatches an event to every attached listener, in attach order
RECURSIVE AllOnMove(_, _, _)
AllOnMove(ls, px, st) ==
    IF ls = <<>> THEN st ELSE AllOnMove(Tail(ls), px, OnMove(Head(ls), px, st))

RECURSIVE AllOnUp(_, _)
AllOnUp(ls, st) ==
    IF ls = <<>> THEN st ELSE AllOnUp(Tail(ls), OnUp(Head(ls), st))

(* ---------------------------------------------------------------------- *)
(* Initial state                                                          *)
(* ---------------------------------------------------------------------- *)
InitialScrollLeft == Zero
InitialViewFraction == One
InitialViewMode == "bars"

\* no text kept, nothing handed to onVisibleQueryChange
NoParse == text = Null /\ ids = <<>> /\ visibleQuery = Null
\* primer requests are not tracked
NoFetch == debounce = Null /\ fetches = Null /\ desiredLen = 0 /\ answered = Null

\* no rows kept, no primers prop, nothing painted, no primer response mapped
NoContent ==
    /\ sequences = <<>>
    /\ primers = Null
    /\ canvas = Null
    /\ calls = <<>>
    /\ data = Null
    /\ showMoligizer = FALSE
    /\ NoParse
    /\ NoFetch

\* useState / useRef initialisers of a fresh MSAViewer instance
FreshViewer ==
    /\ availableWidth' = InitialAvailableWidth
    /\ scrollLeft' = InitialScrollLeft
    /\ viewFraction' = InitialViewFraction
    /\ viewMode' = InitialViewMode
    /\ selectionRange' = Null
    /\ isDragging' = FALSE
    /\ targetScrollRef' = Null
    /\ domScrollLeft' = Zero
    /\ scrollEventPending' = FALSE

Init ==
    /\ variant \in Variants
    /\ step = "input" /\ input = FALSE /\ alignment = 0
    /\ blastHits = FALSE /\ blastMeta = FALSE /\ requests = <<>>
    /\ instance = 0
    /\ availableWidth = InitialAvailableWidth
    /\ scrollLeft = InitialScrollLeft
    /\ viewFraction = InitialViewFraction
    /\ viewMode = InitialViewMode
    /\ selectionRange = Null
    /\ isDragging = FALSE
    /\ targetScrollRef = Null
    /\ domScrollLeft = Zero
    /\ scrollEventPending = FALSE
    /\ effectsPending = FALSE
    /\ listeners = <<>>
    /\ nSearch = 0 /\ nDown = 0 /\ nZoom = 0 /\ nOps = 0
    /\ lastOp = "init"
    /\ modeLog = Null
    /\ zoomLog = Null
    /\ NoContent

(* ---------------------------------------------------------------------- *)
(* App: search, reset, and the alignment prop of the viewer               *)
(* ---------------------------------------------------------------------- *)
\* {alignment && <MSAViewer alignment={alignment} />}: the viewer is mounted
\* while alignment is non-empty; a changed non-empty alignment re-renders the
\* mounted instance, an empty one unmounts it and destroys its state
SetAlignment(a) ==
    /\ alignment' = a
    /\ IF a = alignment THEN
            UNCHANGED <<instance, availableWidth, scrollLeft, viewFraction, viewMode,
                        selectionRange, isDragging, targetScrollRef, domScrollLeft,
                        scrollEventPending, effectsPending>>
       ELSE IF alignment = 0 THEN      \* mount
            /\ instance' = instance + 1
            /\ FreshViewer
            /\ effectsPending' = TRUE
       ELSE IF a = 0 THEN              \* unmount
            /\ FreshViewer
            /\ effectsPending' = FALSE
            /\ UNCHANGED instance
       ELSE                            \* new prop on the mounted instance
            /\ effectsPending' = TRUE
            /\ UNCHANGED <<instance, availableWidth, scrollLeft, viewFraction, viewMode,
                           selectionRange, isDragging, targetScrollRef, domScrollLeft,
                           scrollEventPending>>

appFrame == UNCHANGED <<variant, listeners, nDown, nZoom, nOps, modeLog, zoomLog, content>>

TypeInput ==
    /\ ~effectsPending
    /\ step = "input" /\ ~input
    /\ input' = TRUE
    /\ lastOp' = "type"
    /\ UNCHANGED <<variant, step, alignment, blastHits, blastMeta, requests, instance,
                   availableWidth, scrollLeft, viewFraction, viewMode, selectionRange,
                   isDragging, targetScrollRef, domScrollLeft, scrollEventPending,
                   effectsPending, listeners, nSearch, nDown, nZoom, nOps, modeLog,
                   zoomLog, content>>

\* handleSearch up to its fetch
HandleSearch ==
    /\ ~effectsPending
    /\ step = "input" /\ input
    /\ nSearch < MaxSearches
    /\ nSearch' = nSearch + 1
    /\ step' = "blasting"
    /\ blastHits' = FALSE /\ blastMeta' = FALSE
    /\ SetAlignment(0)
    /\ requests' = Append(requests, [phase |-> "fetch", len |-> 0])
    /\ lastOp' = "search"
    /\ UNCHANGED input
    /\ appFrame

\* the response arrives: hits are shown, the 300 ms pause starts
SearchResponse(i, len) ==
    /\ ~effectsPending
    /\ requests[i].phase = "fetch"
    /\ blastHits' = TRUE /\ blastMeta' = TRUE
    /\ step' = "aligning"
    /\ requests' = [requests EXCEPT ![i] = [phase |-> "pause", len |-> len]]
    /\ lastOp' = "response"
    /\ UNCHANGED <<input, alignment, instance, availableWidth, scrollLeft, viewFraction,
                   viewMode, selectionRange, isDragging, targetScrollRef, domScrollLeft,
                   scrollEventPending, effectsPending, nSearch>>
    /\ appFrame

RemoveAt(q, i) == SubSeq(q, 1, i - 1) \o SubSeq(q, i + 1, Len(q))

\* after the pause: setAlignment(data.alignment); setStep('done')
SearchDone(i) ==
    /\ ~effectsPending
    /\ requests[i].phase = "pause"
    /\ SetAlignment(requests[i].len)
    /\ step' = "done"
    /\ requests' = RemoveAt(requests, i)
    /\ lastOp' = IF alignment = 0 THEN "mount" ELSE "replace"
    /\ UNCHANGED <<input, blastHits, blastMeta, nSearch>>
    /\ appFrame

\* the request fails: catch sets the error and returns to the form
SearchFail(i) ==
    /\ ~effectsPending
    /\ requests[i].phase = "fetch"
    /\ step' = "input"
    /\ requests' = RemoveAt(requests, i)
    /\ lastOp' = "fail"
    /\ UNCHANGED <<input, alignment, blastHits, blastMeta, instance, availableWidth,
                   scrollLeft, viewFraction, viewMode, selectionRange, isDragging,
                   targetScrollRef, domScrollLeft, scrollEventPending, effectsPending,
                   nSearch>>
    /\ appFrame

\* Reset (shown while step # 'input') and Start Over (shown when done)
HandleReset ==
    /\ ~effectsPending
    /\ step \in {"blasting", "aligning"} \/ (step = "done" /\ blastMeta)
    /\ step' = "input"
    /\ blastHits' = FALSE /\ blastMeta' = FALSE
    /\ SetAlignment(0)
    /\ input' = FALSE
    /\ lastOp' = "reset"
    /\ UNCHANGED <<requests, nSearch>>
    /\ appFrame

\* Edit Search: back to the form, the alignment stays
EditSearch ==
    /\ ~effectsPending
    /\ step = "done" /\ blastMeta
    /\ step' = "input"
    /\ lastOp' = "edit"
    /\ UNCHANGED <<input, alignment, blastHits, blastMeta, requests, instance,
                   availableWidth, scrollLeft, viewFraction, viewMode, selectionRange,
                   isDragging, targetScrollRef, domScrollLeft, scrollEventPending,
                   effectsPending, nSearch>>
    /\ appFrame

(* ---------------------------------------------------------------------- *)
(* MSAViewer: handlers                                                    *)
(* ---------------------------------------------------------------------- *)
\* the controls exist once the effects have run; without rows the component
\* renders nothing
uiReady == mounted /\ ~effectsPending /\ (text = Null \/ sequences # <<>>)

\* a handler that changed React state caused a render, whose effects are due
Rendered ==
    effectsPending' =
        (<<availableWidth', scrollLeft', viewFraction', viewMode', selectionRange'>>
            # <<availableWidth, scrollLeft, viewFraction, viewMode, selectionRange>>)

appState ==
    <<variant, step, input, alignment, blastHits, blastMeta, requests, instance, nSearch>>

viewerFrame == UNCHANGED <<appState, modeLog, zoomLog, content>>

\* a zoomIn / zoomOut call enters the record of zoom calls, where one is kept
Logged(op) ==
    zoomLog' = IF zoomLog = Null THEN Null
               ELSE Some(Append(zoomLog[1],
                         [op |-> op, before |-> viewFraction, after |-> viewFraction']))

\* a zoomIn without the floor
ZoomInVFNoFloor(p) == Mul(p, ZoomInFactor)

ZoomInVF(p) == MathMax(MinViewFraction, Mul(p, ZoomInFactor))
\* a zoomOut that divides by the zoomIn factor
ZoomOutVFReciprocal(p) == MathMin(One, Div(p, ZoomInFactor))

ZoomOutVF(p) == MathMin(One, Mul(p, ZoomOutFactor))

zoomIn ==
    /\ uiReady /\ nZoom < MaxZoomOps
    /\ nZoom' = nZoom + 1
    /\ viewFraction' = ZoomInVF(viewFraction)
    /\ lastOp' = "zoomIn"
    /\ Logged("zoomIn")
    /\ UNCHANGED <<availableWidth, scrollLeft, viewMode, selectionRange, isDragging,
                   targetScrollRef, domScrollLeft, scrollEventPending, listeners,
                   nDown, nOps>>
    /\ Rendered
    /\ UNCHANGED <<appState, modeLog, content>>

zoomOut ==
    /\ uiReady /\ nZoom < MaxZoomOps
    /\ nZoom' = nZoom + 1
    /\ viewFraction' = ZoomOutVF(viewFraction)
    /\ lastOp' = "zoomOut"
    /\ Logged("zoomOut")
    /\ UNCHANGED <<availableWidth, scrollLeft, viewMode, selectionRange, isDragging,
                   targetScrollRef, domScrollLeft, scrollEventPending, listeners,
                   nDown, nOps>>
    /\ Rendered
    /\ UNCHANGED <<appState, modeLog, content>>

\* the zoom slider's onChange
ZoomSlider(v) ==
    /\ uiReady /\ nOps < MaxOps
    /\ nOps' = nOps + 1
    /\ v # viewFraction
    /\ viewFraction' = v
    /\ lastOp' = "slider"
    /\ UNCHANGED <<availableWidth, scrollLeft, viewMode, selectionRange, isDragging,
                   targetScrollRef, domScrollLeft, scrollEventPending, listeners,
                   nDown, nZoom>>
    /\ Rendered
    /\ viewerFrame

WheelVF(vf, factor) == MathMax(MinViewFraction, MathMin(One, Mul(vf, factor)))

\* a wheel zoom of the select build that leaves scrollLeft where it is
WheelSLKept(aw, sl, vf, offsetX, factor) == sl

\* scrollLeft after a wheel zoom of the select build: keep the fraction under
\* the pointer where it is, then clamp
WheelSL(aw, sl, vf, offsetX, factor) ==
    LET seqAreaWidth == SeqAreaW(aw)
        validOffsetX == MathMax(Zero, MathMin(seqAreaWidth, offsetX))
        currentTotalVirtualW == Div(seqAreaWidth, vf)
        mouseFracGlobal == Div(Add(sl, validOffsetX), currentTotalVirtualW)
        newVF == WheelVF(vf, factor)
        newTotalVirtualW == Div(seqAreaWidth, newVF)
        newSL == Sub(Mul(mouseFracGlobal, newTotalVirtualW), validOffsetX)
    IN  MathMax(Zero, MathMin(Sub(newTotalVirtualW, seqAreaWidth), newSL))

\* Ctrl/Cmd + wheel over the detail pane
handleWheel(px, factor) ==
    /\ uiReady /\ nZoom < MaxZoomOps
    /\ nZoom' = nZoom + 1
    /\ viewFraction' = WheelVF(viewFraction, factor)
    /\ IF variant = "select" THEN
            LET newSL == WheelSL(availableWidth, scrollLeft, viewFraction, Whole(px), factor)
                \* scrollRef.current.scrollLeft = newSL, against the layout of
                \* the last render
                dom == Clamp(newSL, Zero, MaxScroll(availableWidth, viewFraction))
            IN  /\ scrollLeft' = newSL
                /\ domScrollLeft' = dom
                /\ scrollEventPending' = (scrollEventPending \/ dom # domScrollLeft)
       ELSE UNCHANGED <<scrollLeft, domScrollLeft, scrollEventPending>>
    /\ lastOp' = "wheel"
    /\ UNCHANGED <<availableWidth, viewMode, selectionRange, isDragging,
                   targetScrollRef, listeners, nDown, nOps>>
    /\ Rendered
    /\ viewerFrame

\* the Overview button
ToggleBars ==
    /\ uiReady /\ nOps < MaxOps
    /\ nOps' = nOps + 1
    /\ viewMode' = "bars"
    /\ viewFraction' = One
    /\ scrollLeft' = Zero
    /\ targetScrollRef' = Some(Zero)
    /\ lastOp' = "bars"
    /\ UNCHANGED <<availableWidth, selectionRange, isDragging, domScrollLeft,
                   scrollEventPending, listeners, nDown, nZoom>>
    /\ Rendered
    /\ viewerFrame

\* a Sequence button that resets the zoom like the Overview button
LettersVFFull(len) == One

\* viewFraction the Sequence button sets; over rows without a column the
\* quotient is Infinity and the minimum 1
LettersVF(len) ==
    IF len = 0 THEN One ELSE MathMin(One, Rat(BP_THRESHOLD - HYSTERESIS - 1, len))

\* the Sequence button
ToggleLetters ==
    /\ uiReady /\ nOps < MaxOps
    /\ nOps' = nOps + 1
    /\ viewMode' = "letters"
    /\ viewFraction' = LettersVF(seqLen)
    /\ scrollLeft' = Zero
    /\ targetScrollRef' = Some(Zero)
    /\ lastOp' = "letters"
    /\ UNCHANGED <<availableWidth, selectionRange, isDragging, domScrollLeft,
                   scrollEventPending, listeners, nDown, nZoom>>
    /\ Rendered
    /\ viewerFrame

\* the ResizeObserver callback
Resize(w) ==
    /\ uiReady /\ nOps < MaxOps
    /\ w # availableWidth
    /\ nOps' = nOps + 1
    /\ availableWidth' = w
    /\ lastOp' = "resize"
    /\ UNCHANGED <<scrollLeft, viewFraction, viewMode, selectionRange, isDragging,
                   targetScrollRef, domScrollLeft, scrollEventPending, listeners,
                   nDown, nZoom>>
    /\ Rendered
    /\ viewerFrame

\* the user scrolls the detail pane to one end
UserScroll(toEnd) ==
    /\ uiReady /\ nOps < MaxOps
    /\ nOps' = nOps + 1
    /\ LET pos == IF toEnd THEN MaxScroll(availableWidth, viewFraction) ELSE Zero
       IN  /\ pos # domScrollLeft
           /\ domScrollLeft' = pos
    /\ scrollEventPending' = TRUE
    /\ UNCHANGED <<availableWidth, scrollLeft, viewFraction, viewMode, selectionRange,
                   isDragging, targetScrollRef, effectsPending, listeners,
                   nDown, nZoom, lastOp>>
    /\ viewerFrame

\* a handleScroll without the guard on isDragging
handleScrollUnguarded ==
    /\ uiReady /\ scrollEventPending
    /\ scrollEventPending' = FALSE
    /\ scrollLeft' = domScrollLeft
    /\ lastOp' = "scroll"
    /\ UNCHANGED <<availableWidth, viewFraction, viewMode, selectionRange, isDragging,
                   targetScrollRef, domScrollLeft, listeners, nDown, nZoom, nOps>>
    /\ Rendered
    /\ viewerFrame

\* the pane's scroll event reaches handleScroll
handleScroll ==
    /\ uiReady /\ scrollEventPending
    /\ scrollEventPending' = FALSE
    /\ scrollLeft' = IF ~isDragging THEN domScrollLeft ELSE scrollLeft
    /\ lastOp' = "scroll"
    /\ UNCHANGED <<availableWidth, viewFraction, viewMode, selectionRange, isDragging,
                   targetScrollRef, domScrollLeft, listeners, nDown, nZoom, nOps>>
    /\ Rendered
    /\ viewerFrame

(* ---------------------------------------------------------------------- *)
(* MSAViewer: the minimap drag                                            *)
(* ---------------------------------------------------------------------- *)
handleMinimapMouseDown(px) ==
    /\ uiReady
    /\ nDown < MaxDowns /\ Len(listeners) < MaxSessions
    /\ px <= availableWidth - LABEL_WIDTH          \* the pointer is on the canvas
    /\ nDown' = nDown + 1
    /\ LET mmSeqW == SeqAreaW(availableWidth)      \* rect.width - LABEL_WIDTH
           curSeqAreaW == SeqAreaW(availableWidth)
           mouseXFrac == MouseXFrac(variant, px, mmSeqW)
           curStart == CurStart(availableWidth, scrollLeft, viewFraction)
           curEnd == CurEnd(availableWidth, scrollLeft, viewFraction)
           dragType == DragType(variant, mouseXFrac, curStart, curEnd, viewFraction, mmSeqW)
       IN  IF dragType = "jump" THEN
                LET jumpStart == JumpStart(mouseXFrac, viewFraction)
                    jumpSL == Mul(jumpStart, Div(curSeqAreaW, viewFraction))
                IN  /\ scrollLeft' = jumpSL
                    /\ targetScrollRef' = Some(jumpSL)
                    /\ listeners' = Append(listeners,
                          Session(instance, "pan", px, jumpStart,
                                  Add(jumpStart, viewFraction), curSeqAreaW, mmSeqW, Zero,
                                  TRUE))
                    /\ UNCHANGED selectionRange
           ELSE
                /\ selectionRange' =
                      IF dragType = "select"
                      THEN Some([start |-> mouseXFrac, end |-> mouseXFrac])
                      ELSE selectionRange
                /\ listeners' = Append(listeners,
                      Session(instance, dragType, px, curStart, curEnd, curSeqAreaW, mmSeqW,
                              IF variant = "select" THEN mouseXFrac ELSE Zero, FALSE))
                /\ UNCHANGED <<scrollLeft, targetScrollRef>>
    /\ isDragging' = TRUE
    /\ lastOp' = "down"
    /\ UNCHANGED <<availableWidth, viewFraction, viewMode, domScrollLeft,
                   scrollEventPending, nZoom, nOps>>
    /\ Rendered
    /\ viewerFrame

\* mousemove on document while sessions are attached
DocumentMouseMove(px) ==
    /\ ~effectsPending
    /\ listeners # <<>>
    /\ LET st == AllOnMove(listeners, px, curView)
       IN  /\ viewFraction' = st.viewFraction
           /\ scrollLeft' = st.scrollLeft
           /\ targetScrollRef' = st.targetScrollRef
           /\ selectionRange' = st.selectionRange
    /\ lastOp' = "move"
    /\ UNCHANGED <<availableWidth, viewMode, isDragging, domScrollLeft,
                   scrollEventPending, listeners, nDown, nZoom, nOps>>
    /\ Rendered
    /\ viewerFrame

\* a mouseup whose onUp closures do not detach themselves
DocumentMouseUpLeak ==
    /\ ~effectsPending
    /\ listeners # <<>>
    /\ LET st == AllOnUp(listeners, curView)
       IN  /\ viewFraction' = st.viewFraction
           /\ scrollLeft' = st.scrollLeft
           /\ targetScrollRef' = st.targetScrollRef
           /\ selectionRange' = st.selectionRange
           /\ isDragging' = st.isDragging
    /\ lastOp' = IF \E i \in DOMAIN listeners : listeners[i].jumped THEN "upJump" ELSE "up"
    /\ UNCHANGED <<availableWidth, viewMode, domScrollLeft, scrollEventPending,
                   listeners, nDown, nZoom, nOps>>
    /\ Rendered
    /\ viewerFrame

\* mouseup on document: every session's onUp runs and detaches its pair
DocumentMouseUp ==
    /\ ~effectsPending
    /\ listeners # <<>>
    /\ LET st == AllOnUp(listeners, curView)
       IN  /\ viewFraction' = st.viewFraction
           /\ scrollLeft' = st.scrollLeft
           /\ targetScrollRef' = st.targetScrollRef
           /\ selectionRange' = st.selectionRange
           /\ isDragging' = st.isDragging
    /\ listeners' = <<>>
    /\ lastOp' = IF \E i \in DOMAIN listeners : listeners[i].jumped THEN "upJump" ELSE "up"
    /\ UNCHANGED <<availableWidth, viewMode, domScrollLeft, scrollEventPending,
                   nDown, nZoom, nOps>>
    /\ Rendered
    /\ viewerFrame

(* ---------------------------------------------------------------------- *)
(* Rows of characters                                                     *)
(* ---------------------------------------------------------------------- *)
\* a row is a sequence of one-character strings; column col (from 0) of a
\* row is element col + 1 of the sequence
Gap == "-"

\* gappedSeq.replace(/-/g, '')
raw(gappedSeq) == SelectSeq(gappedSeq, LAMBDA ch : ch # Gap)

\* an upper-casing that leaves every character as it is
toUpperCaseIdentity(ch) == ch

toUpperCase(ch) ==
    CASE ch = "a" -> "A" [] ch = "c" -> "C" [] ch = "g" -> "G" [] ch = "t" -> "T"
      [] OTHER -> ch

\* (seq[col] || '-').toUpperCase()
CharAt(seq, col) == toUpperCase(IF col \in 0..(Len(seq) - 1) THEN seq[col + 1] ELSE Gap)

\* Math.max(...sequences.map((s) => s.seq.length)), 0 without rows
SeqLenOf(rows) ==
    IF rows = <<>> THEN 0
    ELSE CHOOSE n \in {Len(rows[r]) : r \in 1..Len(rows)} :
            \A r \in 1..Len(rows) : Len(rows[r]) <= n

seqStart(seq) ==
    IF \E i \in 1..Len(seq) : seq[i] # Gap
    THEN (CHOOSE i \in 1..Len(seq) : seq[i] # Gap /\ \A j \in 1..(i - 1) : seq[j] = Gap) - 1
    ELSE 0

seqEnd(seq) ==
    IF \E i \in 1..Len(seq) : seq[i] # Gap
    THEN (CHOOSE i \in 1..Len(seq) : seq[i] # Gap /\ \A j \in (i + 1)..Len(seq) : seq[j] = Gap) - 1
    ELSE Len(seq) - 1

(* ---------------------------------------------------------------------- *)
(* MSAViewer: the rows parsed from the alignment text                     *)
(* ---------------------------------------------------------------------- *)
\* a text is the sequence of its lines (the pieces between line feeds), a line
\* a sequence of one-character strings
Marker == ">"
IsSpace(ch) == ch = " "

RECURSIVE TrimStart(_)
TrimStart(l) == IF l # <<>> /\ IsSpace(Head(l)) THEN TrimStart(Tail(l)) ELSE l

RECURSIVE TrimEnd(_)
TrimEnd(l) ==
    IF l # <<>> /\ IsSpace(l[Len(l)]) THEN TrimEnd(SubSeq(l, 1, Len(l) - 1)) ELSE l

\* String.prototype.trim on one line
Trim(l) == TrimEnd(TrimStart(l))

RECURSIVE DropBlankHead(_)
DropBlankHead(ls) ==
    IF ls # <<>> /\ Trim(Head(ls)) = <<>> THEN DropBlankHead(Tail(ls)) ELSE ls

RECURSIVE DropBlankLast(_)
DropBlankLast(ls) ==
    IF ls # <<>> /\ Trim(ls[Len(ls)]) = <<>>
    THEN DropBlankLast(SubSeq(ls, 1, Len(ls) - 1)) ELSE ls

\* alignment.trim().split('\n'): white space and line feeds are cut from both
\* ends of the text, then the text is cut at its line feeds; a blank text
\* leaves one empty line
TrimSplit(t) ==
    LET ls == DropBlankLast(DropBlankHead(t))
    IN  IF ls = <<>> THEN << <<>> >>
        ELSE IF Len(ls) = 1 THEN <<Trim(ls[1])>>
        ELSE <<TrimStart(ls[1])>> \o SubSeq(ls, 2, Len(ls) - 1) \o <<TrimEnd(ls[Len(ls)])>>

\* l.startsWith('>')
startsWithMarker(l) == l # <<>> /\ l[1] = Marker

\* a parse that pushes the record in hand whatever its label
PushAny(seqs, cur, seq) == Append(seqs, [id |-> cur, seq |-> seq])

\* if (cur) seqs.push({ id: cur, seq })
Push(seqs, cur, seq) == IF cur # <<>> THEN Append(seqs, [id |-> cur, seq |-> seq]) ELSE seqs

\* the forEach over the lines and the push after it
RECURSIVE ParseLines(_, _, _, _)
ParseLines(ls, cur, seq, seqs) ==
    IF ls = <<>> THEN Push(seqs, cur, seq)
    ELSE IF startsWithMarker(Head(ls))
         THEN ParseLines(Tail(ls), Trim(Tail(Head(ls))), <<>>, Push(seqs, cur, seq))
         ELSE ParseLines(Tail(ls), cur, seq \o Trim(Head(ls)), seqs)

\* the sequences memo: the rows {id, seq} of an alignment text
ParseFasta(t) ==
    IF t = <<>> \/ t = << <<>> >> THEN <<>>
    ELSE ParseLines(TrimSplit(t), <<>>, <<>>, <<>>)

(* ---------------------------------------------------------------------- *)
(* MSAViewer: the GC curve and the paint of the cells                     *)
(* ---------------------------------------------------------------------- *)
\* a GC fraction whose denominator counts the gaps too
GcAtCountingGaps(rows, col) ==
    Rat(Cardinality({r \in 1..Len(rows) : CharAt(rows[r], col) \in {"G", "C"}}), Len(rows))

\* a GC fraction that counts upper-case G and C only
GcAtCaseSensitive(rows, col) ==
    LET ch(r) == IF col \in 0..(Len(rows[r]) - 1) THEN rows[r][col + 1] ELSE Gap
        total == Cardinality({r \in 1..Len(rows) : ch(r) # Gap})
        gcCount == Cardinality({r \in 1..Len(rows) : ch(r) \in {"G", "C"}})
    IN  IF total > 0 THEN Rat(gcCount, total) ELSE Zero

\* the body of gcContent's column loop
GcAt(rows, col) ==
    LET total == Cardinality({r \in 1..Len(rows) : CharAt(rows[r], col) # Gap})
        gcCount == Cardinality({r \in 1..Len(rows) : CharAt(rows[r], col) \in {"G", "C"}})
    IN  IF total > 0 THEN Rat(gcCount, total) ELSE Zero

\* entry col + 1 of the sequence is gc[col]
gcContent ==
    IF seqLen = 0 \/ sequences = <<>> THEN <<>>
    ELSE [c \in 1..seqLen |-> GcAt(sequences, c - 1)]

\* seq.slice(from, to) for 0 <= from
Slice(seq, from, to) == SubSeq(seq, from + 1, IF to < Len(seq) THEN to ELSE Len(seq))

\* a count that compares the characters as they are written
CountOfAsWritten(sub, ch) == Cardinality({i \in 1..Len(sub) : sub[i] = ch})

\* how many characters of sub upper-case to ch
CountOf(sub, ch) == Cardinality({i \in 1..Len(sub) : toUpperCase(sub[i]) = ch})

\* total > 0 ? ((g + c) / total) * 100 : 0
GcPct(gc, total) == IF total > 0 THEN Mul(Rat(gc, total), Whole(100)) ELSE Zero

\* the selectionStats memo: the counts over the visible columns of the first row
selectionStats ==
    IF sequences = <<>> THEN Null
    ELSE LET sub == Slice(sequences[1], startCol, endCol + 1)
             g == CountOf(sub, "G")
             c == CountOf(sub, "C")
             total == Cardinality({i \in 1..Len(sub) : toUpperCase(sub[i]) # Gap})
         IN  Some([g |-> g, c |-> c, a |-> CountOf(sub, "A"), t |-> CountOf(sub, "T"),
                   total |-> total, gcPct |-> GcPct(g + c, total)])

\* the value the broadcast effect hands to onVisibleQueryChange
VisibleQuery ==
    LET query == sequences[1]
        start == IF startCol < 0 THEN 0 ELSE startCol
        end == IF Len(query) - 1 < endCol THEN Len(query) - 1 ELSE endCol
    IN  [id |-> IF ids = <<>> THEN <<>> ELSE ids[1],
         seq |-> Slice(query, start, end + 1), start |-> start, end |-> end]

InSpan(col, sp) == col >= sp.start /\ col < sp.end

\* the cell's background in letters mode; the pan build colours every cell by
\* its nucleotide
LettersPaint(v, isQuery, ch, qch, col, sStart, sEnd, pr) ==
    IF v = "pan" THEN "nucleotide"
    ELSE IF ch = Gap THEN
            IF ~isQuery /\ col >= sStart /\ col <= sEnd THEN "indel" ELSE "gap"
    ELSE IF ~isQuery /\ qch = Gap /\ ch # Gap THEN "indel"
    ELSE IF ~isQuery /\ ch # qch /\ qch # Gap THEN "mismatch"
    ELSE IF isQuery /\ pr # Null /\ InSpan(col, pr[1].p1) THEN "primer1"
    ELSE IF isQuery /\ pr # Null /\ InSpan(col, pr[1].p2) THEN "primer2"
    ELSE "match"

\* what bars mode paints over the row's bar
BarsPaint(v, isQuery, ch, qch, col, sStart, sEnd, pr) ==
    IF ch = Gap THEN "none"
    ELSE IF v = "pan" THEN (IF ch # qch /\ qch # Gap THEN "mismatch" ELSE "none")
    ELSE IF \/ (~isQuery /\ ch = Gap /\ col >= sStart /\ col <= sEnd)
            \/ (~isQuery /\ qch = Gap /\ ch # Gap) THEN "indel"
    ELSE IF ~isQuery /\ ch # Gap /\ ch # qch /\ qch # Gap THEN "mismatch"
    ELSE IF isQuery /\ pr # Null /\ ch # Gap THEN
            IF InSpan(col, pr[1].p1) THEN "primer1"
            ELSE IF InSpan(col, pr[1].p2) THEN "primer2"
            ELSE "none"
    ELSE "none"

\* what drawMinimap paints over the row's bar; the select build lays the two
\* primer rectangles over the query row afterwards, P2 last.  A cell's paint is
\* the paint of its whole width (a span's minimal width of one pixel is none)
MinimapPaint(v, isQuery, ch, qch, col, sStart, sEnd, pr) ==
    IF v = "select" /\ isQuery /\ pr # Null /\ InSpan(col, pr[1].p2) THEN "primer2"
    ELSE IF v = "select" /\ isQuery /\ pr # Null /\ InSpan(col, pr[1].p1) THEN "primer1"
    ELSE IF v = "pan" THEN
            IF ch = Gap THEN "none"
            ELSE IF ch # qch /\ qch # Gap THEN "mismatch" ELSE "none"
    ELSE IF \/ (~isQuery /\ ch = Gap /\ col >= sStart /\ col <= sEnd)
            \/ (~isQuery /\ qch = Gap /\ ch # Gap) THEN "indel"
    ELSE IF ~isQuery /\ ch # Gap /\ ch # qch /\ qch # Gap THEN "mismatch"
    ELSE "none"

\* the paint of cell (row r, column col) on a surface
Paint(surface, v, rows, r, col, pr) ==
    LET ch == CharAt(rows[r], col)
        qch == CharAt(rows[1], col)
        sStart == seqStart(rows[r])
        sEnd == seqEnd(rows[r])
    IN  CASE surface = "letters" -> LettersPaint(v, r = 1, ch, qch, col, sStart, sEnd, pr)
          [] surface = "bars" -> BarsPaint(v, r = 1, ch, qch, col, sStart, sEnd, pr)
          [] surface = "minimap" -> MinimapPaint(v, r = 1, ch, qch, col, sStart, sEnd, pr)

\* a cell width that is 1 wherever the quotient is not positive
cellWGuarded ==
    IF seqLen > 0 /\ Lt(Zero, totalVirtualW) THEN Div(totalVirtualW, Whole(seqLen)) ELSE One

cellW == IF seqLen > 0 THEN Div(totalVirtualW, Whole(seqLen)) ELSE One

\* what a / b is for 0 <= a and 0 <= b: a number, or NaN (0 / 0), or Infinity
QuotientKind(a, b) == IF b # Zero THEN "finite" ELSE IF a = Zero THEN "NaN" ELSE "Infinity"

\* Math.max(0, Math.floor(scrollLeft / cellW)); Math.max keeps NaN and Infinity
firstColKind == QuotientKind(scrollLeft, cellW)
firstCol ==
    LET f == MathFloor(Div(scrollLeft, cellW))
    IN  IF f < 0 THEN 0 ELSE f
\* Math.min(seqLen - 1, Math.ceil((scrollLeft + seqAreaW) / cellW)); Math.min
\* keeps NaN and takes seqLen - 1 against Infinity
lastColKind ==
    IF QuotientKind(Add(scrollLeft, seqAreaW), cellW) = "NaN" THEN "NaN" ELSE "finite"
lastCol ==
    IF QuotientKind(Add(scrollLeft, seqAreaW), cellW) = "Infinity" THEN seqLen - 1
    ELSE LET c == MathCeil(Div(Add(scrollLeft, seqAreaW), cellW))
         IN  IF seqLen - 1 < c THEN seqLen - 1 ELSE c
\* the columns the draw loop visits: none when a bound is not a finite number
DrawnCols ==
    IF firstColKind # "finite" \/ lastColKind # "finite" THEN {} ELSE firstCol..lastCol

\* what the draw and drawMinimap effects of this render leave on the canvases
Drawn ==
    LET pr == IF variant = "select" THEN primers ELSE Null
    IN  [mode |-> viewMode,
         primers |-> pr,
         main |-> [r \in 1..Len(sequences) |->
                    [col \in DrawnCols |->
                        Paint(viewMode, variant, sequences, r, col, pr)]],
         minimap |-> [r \in 1..Len(sequences) |->
                    [col \in 0..(seqLen - 1) |->
                        Paint("minimap", variant, sequences, r, col, pr)]],
         gc |-> gcContent]

(* ---------------------------------------------------------------------- *)
(* MSAViewer: what runs after a render is committed                       *)
(* ---------------------------------------------------------------------- *)
\* an auto-switch effect with one threshold and no deadband
ModeEffectNoDeadband(mode, vb) ==
    IF mode = "bars" /\ Lt(vb, Whole(BP_THRESHOLD)) THEN "letters"
    ELSE IF mode = "letters" /\ Lt(Whole(BP_THRESHOLD), vb) THEN "bars"
    ELSE mode

\* an auto-switch effect whose two thresholds are exchanged
ModeEffectInverted(mode, vb) ==
    IF mode = "bars" /\ Lt(vb, Whole(BP_THRESHOLD + HYSTERESIS)) THEN "letters"
    ELSE IF mode = "letters" /\ Lt(Whole(BP_THRESHOLD - HYSTERESIS), vb) THEN "bars"
    ELSE mode

\* the auto-switch effect
ModeEffect(mode, vb) ==
    IF mode = "bars" /\ Lt(vb, Whole(BP_THRESHOLD - HYSTERESIS)) THEN "letters"
    ELSE IF mode = "letters" /\ Lt(Whole(BP_THRESHOLD + HYSTERESIS), vb) THEN "bars"
    ELSE mode

\* the pane lays out the spacer of the new width, the sync effect assigns the
\* programmatic scroll target; the pane keeps its position inside the content
SyncScroll(tgt, dom, aw, vf) ==
    Clamp(IF tgt # Null THEN tgt[1] ELSE dom, Zero, MaxScroll(aw, vf))

RunEffects ==
    /\ mounted /\ effectsPending
    /\ viewMode' = ModeEffect(viewMode, visibleBases)
    /\ domScrollLeft' = SyncScroll(targetScrollRef, domScrollLeft, availableWidth, viewFraction)
    /\ targetScrollRef' = Null
    /\ scrollEventPending' = (scrollEventPending \/ domScrollLeft' # domScrollLeft)
    /\ effectsPending' = (viewMode' # viewMode)
    /\ modeLog' = IF modeLog = Null THEN Null
                  ELSE Some(Append(modeLog[1],
                            [vb |-> visibleBases, before |-> viewMode, after |-> viewMode']))
    /\ canvas' = IF sequences = <<>> THEN canvas ELSE Some(Drawn)
    /\ visibleQuery' = IF sequences # <<>> /\ variant = "select"
                        THEN Some(VisibleQuery) ELSE visibleQuery
    /\ UNCHANGED <<availableWidth, scrollLeft, viewFraction, selectionRange, isDragging,
                   listeners, nDown, nZoom, nOps, lastOp, zoomLog,
                   sequences, primers, calls, data, showMoligizer, text, ids, fetchVars>>
    /\ UNCHANGED appState

(* ---------------------------------------------------------------------- *)
(* Specification                                                          *)
(* ---------------------------------------------------------------------- *)
\* the App's own steps
NextApp ==
    \/ TypeInput
    \/ HandleSearch
    \/ \E i \in 1..Len(requests), len \in SeqLens : SearchResponse(i, len)
    \/ \E i \in 1..Len(requests) : SearchDone(i)
    \/ \E i \in 1..Len(requests) : SearchFail(i)
    \/ HandleReset
    \/ EditSearch

\* the viewer's steps
NextView ==
    \/ zoomIn
    \/ zoomOut
    \/ \E v \in SliderValues : ZoomSlider(v)
    \/ \E px \in WheelPx, f \in {WheelInFactor, WheelOutFactor} : handleWheel(px, f)
    \/ ToggleBars
    \/ ToggleLetters
    \/ \E w \in Widths : Resize(w)
    \/ \E toEnd \in BOOLEAN : UserScroll(toEnd)
    \/ handleScroll
    \/ \E px \in DownPx : handleMinimapMouseDown(px)
    \/ \E px \in MovePx : DocumentMouseMove(px)
    \/ DocumentMouseUp
    \/ RunEffects

\* the viewer as App mounts it once a search has delivered an alignment
InitView ==
    /\ variant \in Variants
    /\ step = "done" /\ input = TRUE /\ alignment \in ViewSeqLens
    /\ blastHits = TRUE /\ blastMeta = TRUE /\ requests = <<>>
    /\ instance = 1
    /\ availableWidth = InitialAvailableWidth
    /\ scrollLeft = InitialScrollLeft
    /\ viewFraction = InitialViewFraction
    /\ viewMode = InitialViewMode
    /\ selectionRange = Null
    /\ isDragging = FALSE
    /\ targetScrollRef = Null
    /\ domScrollLeft = Zero
    /\ scrollEventPending = FALSE
    /\ effectsPending = TRUE
    /\ listeners = <<>>
    /\ nSearch = 1 /\ nDown = 0 /\ nZoom = 0 /\ nOps = 0
    /\ lastOp = "mount"
    /\ modeLog = Null
    /\ zoomLog = Null
    /\ NoContent

SpecView == InitView /\ [][NextView]_vars

\* the App with a viewer whose user drags on the minimap and toggles the mode
NextLife ==
    \/ NextApp
    \/ ToggleBars
    \/ ToggleLetters
    \/ handleScroll
    \/ \E px \in DownPx : handleMinimapMouseDown(px)
    \/ \E px \in LifeMovePx : DocumentMouseMove(px)
    \/ DocumentMouseUp
    \/ RunEffects

SpecLife == Init /\ [][NextLife]_vars

\* the viewer under pointer-downs on the minimap, at the zoom levels and scroll
\* positions the slider and the pane give it
NextMinimap ==
    \/ \E v \in MinimapSliderValues : ZoomSlider(v)
    \/ \E toEnd \in BOOLEAN : UserScroll(toEnd)
    \/ handleScroll
    \/ \E px \in MinimapDownPx : handleMinimapMouseDown(px)
    \/ DocumentMouseUp
    \/ RunEffects

SpecMinimap == InitView /\ [][NextMinimap]_vars

\* the viewer under the inputs that change visibleBases, with the runs of its
\* mode controller recorded
NextMode ==
    \/ zoomIn
    \/ zoomOut
    \/ \E v \in ModeSliderValues : ZoomSlider(v)
    \/ RunEffects

InitMode ==
    /\ variant \in Variants
    /\ step = "done" /\ input = TRUE /\ alignment \in ModeSeqLens
    /\ blastHits = TRUE /\ blastMeta = TRUE /\ requests = <<>>
    /\ instance = 1
    /\ availableWidth = InitialAvailableWidth
    /\ scrollLeft = InitialScrollLeft
    /\ viewFraction = InitialViewFraction
    /\ viewMode = InitialViewMode
    /\ selectionRange = Null
    /\ isDragging = FALSE
    /\ targetScrollRef = Null
    /\ domScrollLeft = Zero
    /\ scrollEventPending = FALSE
    /\ effectsPending = TRUE
    /\ listeners = <<>>
    /\ nSearch = 1 /\ nDown = 0 /\ nZoom = 0 /\ nOps = 0
    /\ lastOp = "mount"
    /\ modeLog = Some(<<>>)
    /\ zoomLog = Null
    /\ NoContent

SpecMode == InitMode /\ [][NextMode]_vars

\* the viewer under its zoom buttons, with the calls recorded; the slider is
\* there to bring viewFraction near its floor
NextZoom ==
    \/ zoomIn
    \/ (Le(ZoomOutFrom, viewFraction) /\ zoomOut)
    \/ \E v \in ZoomSliderValues : ZoomSlider(v)
    \/ RunEffects

InitZoom ==
    /\ variant \in Variants
    /\ step = "done" /\ input = TRUE /\ alignment \in ViewSeqLens
    /\ blastHits = TRUE /\ blastMeta = TRUE /\ requests = <<>>
    /\ instance = 1
    /\ availableWidth = InitialAvailableWidth
    /\ scrollLeft = InitialScrollLeft
    /\ viewFraction = InitialViewFraction
    /\ viewMode = InitialViewMode
    /\ selectionRange = Null
    /\ isDragging = FALSE
    /\ targetScrollRef = Null
    /\ domScrollLeft = Zero
    /\ scrollEventPending = FALSE
    /\ effectsPending = TRUE
    /\ listeners = <<>>
    /\ nSearch = 1 /\ nDown = 0 /\ nOps = 0
    /\ nZoom = MaxZoomOps - MaxZoomCalls       \* a budget of MaxZoomCalls calls
    /\ lastOp = "mount"
    /\ modeLog = Null
    /\ zoomLog = Some(<<>>)
    /\ NoContent

SpecZoom == InitZoom /\ [][NextZoom]_vars

(* ---------------------------------------------------------------------- *)
(* QueryViewer: the primer request and the mapping of its answer          *)
(* ---------------------------------------------------------------------- *)
\* the loop of mapUngappedToGapped from column i with u bases counted
RECURSIVE mapScan(_, _, _, _)
mapScan(ungappedIdx, gappedSeq, i, u) ==
    IF i >= Len(gappedSeq) THEN Len(gappedSeq)
    ELSE IF gappedSeq[i + 1] # Gap THEN
            IF u = ungappedIdx THEN i
            ELSE mapScan(ungappedIdx, gappedSeq, i + 1, u + 1)
    ELSE mapScan(ungappedIdx, gappedSeq, i + 1, u)

\* a mapping that counts the bases from one
mapOneBased(ungappedIdx, gappedSeq) == mapScan(ungappedIdx + 1, gappedSeq, 0, 0)

\* a mapping that takes every column for a base
mapIgnoringGaps(ungappedIdx, gappedSeq) ==
    IF ungappedIdx \in 0..(Len(gappedSeq) - 1) THEN ungappedIdx ELSE Len(gappedSeq)

\* a mapping whose end-of-sequence answer is the last column
mapEndAtLastColumn(ungappedIdx, gappedSeq) ==
    IF mapScan(ungappedIdx, gappedSeq, 0, 0) = Len(gappedSeq) THEN Len(gappedSeq) - 1
    ELSE mapScan(ungappedIdx, gappedSeq, 0, 0)

mapUngappedToGapped(ungappedIdx, gappedSeq) == mapScan(ungappedIdx, gappedSeq, 0, 0)

\* a span mapped without the slice's start column
MappedSpanNoOffset(span, d) ==
    [start |-> mapUngappedToGapped(span.start, d.seq),
     end |-> mapUngappedToGapped(span.end, d.seq)]

\* { start: data.start + pStartGapped, end: data.start + pEndGapped }
MappedSpan(span, d) ==
    [start |-> d.start + mapUngappedToGapped(span.start, d.seq),
     end |-> d.start + mapUngappedToGapped(span.end, d.seq)]

\* one mapUngappedToGapped call as the record of calls keeps it
Call(ungappedIdx, gappedSeq) ==
    [idx |-> ungappedIdx, seq |-> gappedSeq,
     ret |-> mapUngappedToGapped(ungappedIdx, gappedSeq)]

\* the callback prop: the parent hands the value to the viewer as its primers
\* prop, and a changed prop renders the viewer again
onPrimersUpdate(p) ==
    /\ primers' = p
    /\ effectsPending' = (effectsPending \/ (mounted /\ p # primers))

queryFrame ==
    UNCHANGED <<appState, availableWidth, scrollLeft, viewFraction, viewMode,
                selectionRange, isDragging, targetScrollRef, domScrollLeft,
                scrollEventPending, listeners, nDown, nZoom, nOps, modeLog, zoomLog,
                sequences, canvas, data, parseVars>>

\* the Moligizer panel is opened or closed; closing it clears the overlay
ToggleMoligizer ==
    /\ data # Null
    /\ showMoligizer' = ~showMoligizer
    /\ IF showMoligizer THEN onPrimersUpdate(Null)
       ELSE UNCHANGED <<primers, effectsPending>>
    /\ debounce' = IF ~showMoligizer /\ fetches # Null /\ Len(raw(data[1].seq)) >= 2
                    THEN Some([data |-> data[1], desiredLen |-> desiredLen])
                    ELSE Null
    /\ lastOp' = "moligizer"
    /\ UNCHANGED <<calls, fetches, desiredLen, answered>>
    /\ queryFrame

\* the answer to a primer request: the two spans, in raw coordinates of
\* data.seq, are mapped to columns and handed to onPrimersUpdate
PrimersResponse(p1, p2) ==
    /\ fetches = Null
    /\ data # Null /\ showMoligizer
    /\ Len(raw(data[1].seq)) >= 2
    /\ calls' = <<Call(p1.start, data[1].seq), Call(p1.end, data[1].seq),
                  Call(p2.start, data[1].seq), Call(p2.end, data[1].seq)>>
    /\ onPrimersUpdate(Some([p1 |-> MappedSpan(p1, data[1]), p2 |-> MappedSpan(p2, data[1])]))
    /\ lastOp' = "primers"
    /\ UNCHANGED <<showMoligizer, fetchVars>>
    /\ queryFrame

\* the request failed: the overlay is cleared
PrimersFail ==
    /\ fetches = Null
    /\ data # Null /\ showMoligizer
    /\ Len(raw(data[1].seq)) >= 2
    /\ onPrimersUpdate(Null)
    /\ lastOp' = "primersFail"
    /\ UNCHANGED <<showMoligizer, calls, fetchVars>>
    /\ queryFrame

\* the QueryViewer over a visible slice of the reference row, with the
\* viewer mounted beside it
NextCoord ==
    \/ ToggleMoligizer
    \/ \E a \in PrimerAnswers : PrimersResponse(a.p1, a.p2)
    \/ PrimersFail
    \/ RunEffects

InitCoord ==
    /\ variant = "select"
    /\ step = "done" /\ input = TRUE /\ alignment \in ViewSeqLens
    /\ blastHits = TRUE /\ blastMeta = TRUE /\ requests = <<>>
    /\ instance = 1
    /\ availableWidth = InitialAvailableWidth
    /\ scrollLeft = InitialScrollLeft
    /\ viewFraction = InitialViewFraction
    /\ viewMode = InitialViewMode
    /\ selectionRange = Null
    /\ isDragging = FALSE
    /\ targetScrollRef = Null
    /\ domScrollLeft = Zero
    /\ scrollEventPending = FALSE
    /\ effectsPending = TRUE
    /\ listeners = <<>>
    /\ nSearch = 1 /\ nDown = 0 /\ nZoom = 0 /\ nOps = 0
    /\ lastOp = "mount"
    /\ modeLog = Null
    /\ zoomLog = Null
    /\ sequences = <<>>
    /\ primers = Null
    /\ canvas = Null
    /\ calls = <<>>
    /\ \E row \in SliceRows, st \in SliceStarts : data = Some([seq |-> row, start |-> st])
    /\ showMoligizer = FALSE
    /\ NoParse
    /\ NoFetch

SpecCoord == InitCoord /\ [][NextCoord]_vars

\* what the fetch effect leaves as its timer when it runs with the slice d and
\* the parameter len: its cleanup has cleared the timer of the run before, and
\* it sets a new one unless it returns early
Debounced(show, d, len) ==
    IF show /\ d # Null /\ Len(raw(d[1].seq)) >= 2
    THEN Some([data |-> d[1], desiredLen |-> len]) ELSE Null

fetchFrame ==
    UNCHANGED <<appState, availableWidth, scrollLeft, viewFraction, viewMode,
                selectionRange, isDragging, targetScrollRef, domScrollLeft,
                scrollEventPending, listeners, nDown, nZoom, nOps, modeLog, zoomLog,
                sequences, canvas, parseVars>>

\* the user sets the desiredLen control: the fetch effect runs again
SetDesiredLen(len) ==
    /\ fetches # Null /\ data # Null
    /\ len # desiredLen
    /\ desiredLen' = len
    /\ debounce' = Debounced(showMoligizer, data, len)
    /\ IF ~showMoligizer THEN onPrimersUpdate(Null)
       ELSE UNCHANGED <<primers, effectsPending>>
    /\ lastOp' = "desiredLen"
    /\ UNCHANGED <<data, showMoligizer, calls, fetches, answered>>
    /\ fetchFrame

\* the parent hands over another visible slice: the reset effect clears the
\* primers and the fetch effect runs again
DataChange(d) ==
    /\ fetches # Null /\ data # Null
    /\ d # data[1]
    /\ data' = Some(d)
    /\ onPrimersUpdate(Null)
    /\ debounce' = Debounced(showMoligizer, Some(d), desiredLen)
    /\ lastOp' = "data"
    /\ UNCHANGED <<showMoligizer, calls, fetches, desiredLen, answered>>
    /\ fetchFrame

\* the 400 ms have passed: fetchPrimers sends its request
DebounceFires ==
    /\ fetches # Null /\ debounce # Null
    /\ Len(fetches[1]) < MaxFetches
    /\ fetches' = Some(Append(fetches[1], debounce[1]))
    /\ debounce' = Null
    /\ lastOp' = "fetch"
    /\ UNCHANGED <<data, showMoligizer, calls, desiredLen, answered, primers, effectsPending>>
    /\ fetchFrame

\* the answer to request i arrives: fetchPrimers goes on in the closure it was
\* made in, maps the spans on that closure's slice and reports them
FetchResponse(i, p1, p2) ==
    /\ fetches # Null /\ i \in 1..Len(fetches[1])
    /\ LET d == fetches[1][i].data
       IN  /\ calls' = <<Call(p1.start, d.seq), Call(p1.end, d.seq),
                         Call(p2.start, d.seq), Call(p2.end, d.seq)>>
           /\ onPrimersUpdate(Some([p1 |-> MappedSpan(p1, d), p2 |-> MappedSpan(p2, d)]))
    /\ answered' = Some(fetches[1][i].desiredLen)
    /\ fetches' = Some(RemoveAt(fetches[1], i))
    /\ lastOp' = "primers"
    /\ UNCHANGED <<data, showMoligizer, debounce, desiredLen>>
    /\ fetchFrame

\* request i fails: the catch branch clears the primers
FetchFail(i) ==
    /\ fetches # Null /\ i \in 1..Len(fetches[1])
    /\ onPrimersUpdate(Null)
    /\ answered' = Null
    /\ fetches' = Some(RemoveAt(fetches[1], i))
    /\ lastOp' = "primersFail"
    /\ UNCHANGED <<data, showMoligizer, calls, debounce, desiredLen>>
    /\ fetchFrame

\* the QueryViewer with its primer requests in flight
NextFetch ==
    \/ ToggleMoligizer
    \/ \E len \in DesiredLens : SetDesiredLen(len)
    \/ \E d \in FetchSlices : DataChange(d)
    \/ DebounceFires
    \/ \E i \in 1..MaxFetches, a \in FetchAnswers : FetchResponse(i, a.p1, a.p2)
    \/ \E i \in 1..MaxFetches : FetchFail(i)
    \/ RunEffects

InitFetch ==
    /\ variant = "select"
    /\ step = "done" /\ input = TRUE /\ alignment \in ViewSeqLens
    /\ blastHits = TRUE /\ blastMeta = TRUE /\ requests = <<>>
    /\ instance = 1
    /\ availableWidth = InitialAvailableWidth
    /\ scrollLeft = InitialScrollLeft
    /\ viewFraction = InitialViewFraction
    /\ viewMode = InitialViewMode
    /\ selectionRange = Null
    /\ isDragging = FALSE
    /\ targetScrollRef = Null
    /\ domScrollLeft = Zero
    /\ scrollEventPending = FALSE
    /\ effectsPending = TRUE
    /\ listeners = <<>>
    /\ nSearch = 1 /\ nDown = 0 /\ nZoom = 0 /\ nOps = 0
    /\ lastOp = "mount"
    /\ modeLog = Null
    /\ zoomLog = Null
    /\ sequences = <<>>
    /\ primers = Null
    /\ canvas = Null
    /\ calls = <<>>
    /\ data \in {Some(d) : d \in FetchSlices}
    /\ showMoligizer = FALSE
    /\ NoParse
    /\ debounce = Null /\ fetches = Some(<<>>) /\ desiredLen = 0 /\ answered = Null

SpecFetch == InitFetch /\ [][NextFetch]_vars

\* the parent renders the viewer with a new primers prop (select build)
PrimersProp(p) ==
    /\ variant = "select" /\ mounted /\ sequences # <<>>
    /\ p # primers
    /\ onPrimersUpdate(p)
    /\ lastOp' = "primersProp"
    /\ UNCHANGED <<showMoligizer, calls, fetchVars>>
    /\ queryFrame

\* the viewer over an alignment whose rows are kept, under its Overview
\* button and a changing primers prop, with what its draws paint
NextPaint ==
    \/ ToggleBars
    \/ \E p \in {Some(pp) : pp \in PaintPrimers} \cup {Null} : PrimersProp(p)
    \/ RunEffects

InitPaint ==
    /\ variant \in Variants
    /\ sequences \in PaintAlignments
    /\ step = "done" /\ input = TRUE /\ alignment = SeqLenOf(sequences)
    /\ blastHits = TRUE /\ blastMeta = TRUE /\ requests = <<>>
    /\ instance = 1
    /\ availableWidth = InitialAvailableWidth
    /\ scrollLeft = InitialScrollLeft
    /\ viewFraction = InitialViewFraction
    /\ viewMode = InitialViewMode
    /\ selectionRange = Null
    /\ isDragging = FALSE
    /\ targetScrollRef = Null
    /\ domScrollLeft = Zero
    /\ scrollEventPending = FALSE
    /\ effectsPending = TRUE
    /\ listeners = <<>>
    /\ nSearch = 1 /\ nDown = 0 /\ nZoom = 0 /\ nOps = 0
    /\ lastOp = "mount"
    /\ modeLog = Null
    /\ zoomLog = Null
    /\ primers = Null
    /\ canvas = Null
    /\ calls = <<>>
    /\ data = Null
    /\ showMoligizer = FALSE
    /\ NoParse
    /\ NoFetch

SpecPaint == InitPaint /\ [][NextPaint]_vars

\* the search delivers the alignment text t, the App mounts the viewer on it
\* and the viewer's first render parses the rows
LoadAlignment(t) ==
    /\ alignment = 0 /\ text = Null
    /\ text' = Some(t)
    /\ sequences' = [r \in 1..Len(ParseFasta(t)) |-> ParseFasta(t)[r].seq]
    /\ ids' = [r \in 1..Len(ParseFasta(t)) |-> ParseFasta(t)[r].id]
    /\ alignment' = SeqLenOf(sequences')
    /\ instance' = instance + 1
    /\ FreshViewer
    /\ effectsPending' = TRUE
    /\ step' = "done" /\ input' = TRUE /\ blastHits' = TRUE /\ blastMeta' = TRUE
    /\ nSearch' = nSearch + 1
    /\ lastOp' = "mount"
    /\ UNCHANGED <<variant, requests, listeners, nDown, nZoom, nOps, modeLog, zoomLog,
                   primers, canvas, calls, data, showMoligizer, visibleQuery, fetchVars>>

\* the viewer from the alignment text it is mounted on, under its mode buttons
NextParse ==
    \/ \E t \in Texts : LoadAlignment(t)
    \/ ToggleBars
    \/ ToggleLetters
    \/ \E w \in ParseWidths : Resize(w)
    \/ RunEffects

SpecParse == Init /\ [][NextParse]_vars

\* the viewer over an alignment whose rows are kept, under its zoom slider and
\* the scroll of its pane
NextStats ==
    \/ \E v \in StatsSliderValues : ZoomSlider(v)
    \/ \E toEnd \in BOOLEAN : UserScroll(toEnd)
    \/ handleScroll
    \/ RunEffects

InitStats ==
    /\ variant \in Variants
    /\ sequences \in StatsAlignments
    /\ step = "done" /\ input = TRUE /\ alignment = SeqLenOf(sequences)
    /\ blastHits = TRUE /\ blastMeta = TRUE /\ requests = <<>>
    /\ instance = 1
    /\ availableWidth = InitialAvailableWidth
    /\ scrollLeft = InitialScrollLeft
    /\ viewFraction = InitialViewFraction
    /\ viewMode = InitialViewMode
    /\ selectionRange = Null
    /\ isDragging = FALSE
    /\ targetScrollRef = Null
    /\ domScrollLeft = Zero
    /\ scrollEventPending = FALSE
    /\ effectsPending = TRUE
    /\ listeners = <<>>
    /\ nSearch = 1 /\ nDown = 0 /\ nZoom = 0 /\ nOps = 0
    /\ lastOp = "mount"
    /\ modeLog = Null
    /\ zoomLog = Null
    /\ primers = Null
    /\ canvas = Null
    /\ calls = <<>>
    /\ data = Null
    /\ showMoligizer = FALSE
    /\ NoParse
    /\ NoFetch

SpecStats == InitStats /\ [][NextStats]_vars

\* the viewer under the buttons, the slider and the wheel that write
\* viewFraction
NextRange ==
    \/ zoomIn
    \/ zoomOut
    \/ \E v \in SliderValues : ZoomSlider(v)
    \/ \E px \in WheelPx, f \in {WheelInFactor, WheelOutFactor} : handleWheel(px, f)
    \/ ToggleBars
    \/ ToggleLetters
    \/ RunEffects

InitRange ==
    /\ variant \in Variants
    /\ step = "done" /\ input = TRUE /\ alignment \in RangeSeqLens
    /\ blastHits = TRUE /\ blastMeta = TRUE /\ requests = <<>>
    /\ instance = 1
    /\ availableWidth = InitialAvailableWidth
    /\ scrollLeft = InitialScrollLeft
    /\ viewFraction = InitialViewFraction
    /\ viewMode = InitialViewMode
    /\ selectionRange = Null
    /\ isDragging = FALSE
    /\ targetScrollRef = Null
    /\ domScrollLeft = Zero
    /\ scrollEventPending = FALSE
    /\ effectsPending = TRUE
    /\ listeners = <<>>
    /\ nSearch = 1 /\ nDown = 0 /\ nZoom = 0 /\ nOps = 0
    /\ lastOp = "mount"
    /\ modeLog = Null
    /\ zoomLog = Null
    /\ NoContent

SpecRange == InitRange /\ [][NextRange]_vars

\* the whole program: App and viewer with every handler.  SpecView (the viewer,
\* every handler, from its mount) and SpecLife (the App, with the viewer's drag
\* and mode buttons) are the two parts of it that are explored exhaustively.
Next == NextApp \/ NextView \/ NextCoord \/ NextPaint \/ NextParse \/ NextStats \/ NextRange \/ NextFetch

Spec == Init /\ [][Next]_vars

TypeOK ==
    /\ variant \in Variants
    /\ step \in {"input", "blasting", "aligning", "done"}
    /\ viewMode \in {"bars", "letters"}
    /\ alignment \in SeqLens \cup ModeSeqLens \cup RangeSeqLens \cup {0} \cup 1..MaxPaintLen \cup 0..(MaxLines * MaxLineLen)

(* ---------------------------------------------------------------------- *)
(* Properties                                                             *)
(* ---------------------------------------------------------------------- *)
\* the drag sessions whose closures belong to the mounted instance
liveSessions == SelectSeq(listeners, Alive)

\* the right bound of the viewport a render shows, not cut at 1
rawEndFrac == Add(startFrac, viewFraction)

\* C1: in every reachable state of the viewer, 0 <= scrollOffset <=
\* totalVirtualWidth - visibleWidth and 0 < viewFraction <= 1
C1_ViewportInvariant ==
    mounted =>
        /\ Le(Zero, scrollLeft)
        /\ Le(scrollLeft, Sub(totalVirtualW, seqAreaW))
        /\ Lt(Zero, viewFraction)
        /\ Le(viewFraction, One)

\* C2: at most one drag session is active at a time; a pointer-down while a
\* session is live attaches no second pair of listeners
C2_SingleSession == Len(liveSessions) <= 1

\* C3: a left-resize move commits a viewport with start >= 0 and
\* start <= end - 0.005, a right-resize move one with end >= start + 0.005
\* and end <= 1
C3_ResizeBounds ==
    (lastOp = "move" /\ Len(liveSessions) = 1 /\ Len(listeners) = 1
        /\ liveSessions[1].dragType \in {"left", "right"}) =>
        /\ Le(Zero, startFrac)
        /\ Le(Add(startFrac, MinViewFraction), rawEndFrac)
        /\ (liveSessions[1].dragType = "right" => Le(rawEndFrac, One))

\* one Selecting session, of the mounted instance, is attached and its
\* selection rectangle is drawn
soleSelecting ==
    /\ Len(listeners) = 1
    /\ Alive(listeners[1])
    /\ listeners[1].dragType = "select"
    /\ selectionRange # Null

\* C4: on pointer-up of a Selecting drag with bounds min and max the viewport
\* is set to show [min, max] if max - min >= 0.005 and is left unchanged
\* otherwise; the SelectionRange is null afterwards in both cases
C4_SelectPointerUp ==
    [][(soleSelecting /\ DocumentMouseUp) =>
        /\ selectionRange' = Null
        /\ IF IsClick(selectionRange[1])
           THEN viewFraction' = viewFraction /\ scrollLeft' = scrollLeft
           ELSE /\ viewFraction' = Sub(SelMax(selectionRange[1]), SelMin(selectionRange[1]))
                /\ StartFrac(availableWidth', scrollLeft', viewFraction')
                        = SelMin(selectionRange[1])]_vars

\* C5: committing the selection [s, e] sets viewFraction = max(0.005, e - s)
\* and scrollOffset = s * totalVirtualWidth, with totalVirtualWidth taken at
\* the new viewFraction, so that the viewport bounds are exactly [s, e]
C5_SetFromSelection ==
    [][(soleSelecting /\ ~IsClick(selectionRange[1]) /\ DocumentMouseUp) =>
        LET s == SelMin(selectionRange[1])
            e == SelMax(selectionRange[1])
        IN  /\ viewFraction' = MathMax(MinViewFraction, Sub(e, s))
            /\ scrollLeft' = Mul(s, TotalVirtualW(availableWidth', viewFraction'))
            /\ StartFrac(availableWidth', scrollLeft', viewFraction') = s
            /\ Add(StartFrac(availableWidth', scrollLeft', viewFraction'), viewFraction') = e]_vars

\* C6: while a Selecting drag is live a pointer-move changes only the
\* SelectionRange; viewFraction and scrollOffset stay as they are
C6_SelectMoveFrame ==
    [][((\E i \in DOMAIN liveSessions : liveSessions[i].dragType = "select")
            /\ (\E px \in MovePx : DocumentMouseMove(px))) =>
        (viewFraction' = viewFraction /\ scrollLeft' = scrollLeft)]_vars

\* C7 (as stated): whenever a SelectionRange exists its stored fields satisfy
\* 0 <= startFrac <= endFrac <= 1, and it exists only while a Selecting drag
\* is live
C7_SelectionRangeOrdered ==
    selectionRange # Null =>
        /\ Le(Zero, selectionRange[1].start)
        /\ Le(selectionRange[1].start, selectionRange[1].end)
        /\ Le(selectionRange[1].end, One)
        /\ \E i \in DOMAIN liveSessions : liveSessions[i].dragType = "select"

\* C7 (amended): whenever a SelectionRange exists both stored fields lie in
\* [0, 1], start being where the pointer went down and end where it is now, in
\* either order, so that only min(start, end) <= max(start, end) is ordered;
\* and it exists only while a Selecting drag is live
C7_SelectionRangeWithinUnit ==
    selectionRange # Null =>
        /\ Le(Zero, selectionRange[1].start) /\ Le(selectionRange[1].start, One)
        /\ Le(Zero, selectionRange[1].end) /\ Le(selectionRange[1].end, One)
        /\ Le(Zero, SelMin(selectionRange[1]))
        /\ Le(SelMin(selectionRange[1]), SelMax(selectionRange[1]))
        /\ Le(SelMax(selectionRange[1]), One)
        /\ \E i \in DOMAIN liveSessions : liveSessions[i].dragType = "select"

\* the pointer of a live Selecting drag is left of where it went down
C7_DraggedLeftwards ==
    /\ selectionRange # Null
    /\ lastOp = "move"
    /\ Lt(selectionRange[1].end, selectionRange[1].start)

\* C8: a new alignment or a reset while a drag is live removes the session's
\* listeners and leaves the viewport at viewFraction 1, scrollOffset 0
C8_LoadResetAbortsDrag ==
    lastOp \in {"reset", "mount", "replace"} =>
        /\ listeners = <<>>
        /\ mounted => (viewFraction = One /\ scrollLeft = Zero)

\* C9: after the pointer-up that ends a drag both listeners are removed and
\* the dragging flag is false, for every drag kind; the flag is up exactly
\* while a session's listeners are attached
C9_ListenersRemoved ==
    /\ lastOp \in {"up", "upJump"} => (listeners = <<>> /\ ~isDragging)
    /\ isDragging <=> listeners # <<>>

\* the pointer-up of an outside-click jump-then-pan session has run
C9_JumpReleased ==
    /\ lastOp = "upJump"
    /\ variant = "pan"
    /\ scrollLeft # Zero

C11_ModeThresholds ==
    /\ viewMode = "bars"
    /\ [][RunEffects =>
            /\ (viewMode = "bars" /\ viewMode' = "letters") <=>
                    (viewMode = "bars" /\ Lt(visibleBases, Whole(85)))
            /\ (viewMode = "letters" /\ viewMode' = "bars") <=>
                    (viewMode = "letters" /\ Lt(Whole(115), visibleBases))
            /\ (Le(Whole(85), visibleBases) /\ Le(visibleBases, Whole(115))) =>
                    viewMode' = viewMode]_vars

\* the controller has run on Letters with visibleBases strictly inside the
\* deadband, above the single threshold 100, and left Letters
C11_LettersInDeadband ==
    /\ mounted /\ ~effectsPending
    /\ viewMode = "letters"
    /\ Lt(Whole(100), visibleBases) /\ Lt(visibleBases, Whole(115))

\* runs i..j of the mode controller read values that never rise, or never fall
LogMonotone(log, i, j) ==
    \/ \A k \in i..(j - 1) : Le(log[k].vb, log[k + 1].vb)
    \/ \A k \in i..(j - 1) : Le(log[k + 1].vb, log[k].vb)

\* how often the mode the controller emits changes over its runs i..j
EmittedChanges(log, i, j) ==
    Cardinality({k \in (i + 1)..j : log[k].after # log[k - 1].after})

InDeadband(vb) == Le(Whole(85), vb) /\ Le(vb, Whole(115))

\* C12: over any monotone sequence of visibleBases values fed to the mode
\* controller the mode it emits changes at most once; a change to Letters
\* happens only below 85 and a change back to Bars only above 115, so a second
\* change needs the other threshold to be crossed; and no sequence of values
\* confined to the deadband [85, 115] changes the mode
C12_NoDoubleSwitch ==
    modeLog # Null =>
        LET log == modeLog[1]
        IN  /\ \A i \in 1..Len(log) : \A j \in i..Len(log) :
                    /\ LogMonotone(log, i, j) => EmittedChanges(log, i, j) <= 1
                    /\ (\A k \in i..j : InDeadband(log[k].vb)) =>
                            (\A k \in i..j : log[k].after = log[k].before)
            /\ \A k \in 1..Len(log) :
                    /\ (log[k].before = "bars" /\ log[k].after = "letters") =>
                            Lt(log[k].vb, Whole(85))
                    /\ (log[k].before = "letters" /\ log[k].after = "bars") =>
                            Lt(Whole(115), log[k].vb)

\* the controller switched to Letters, then ran inside the deadband without
\* changing the mode, then switched back to Bars above the upper threshold
C12_SwitchedBackAcrossDeadband ==
    /\ modeLog # Null
    /\ \E i, j, k \in 1..Len(modeLog[1]) :
            /\ i < j /\ j < k
            /\ modeLog[1][i].before = "bars" /\ modeLog[1][i].after = "letters"
            /\ InDeadband(modeLog[1][j].vb) /\ modeLog[1][j].after = "letters"
            /\ modeLog[1][k].before = "letters" /\ modeLog[1][k].after = "bars"
            /\ LogMonotone(modeLog[1], i, k)

\* the session the last pointer-down attached
newSession == listeners[Len(listeners)]

\* what a pointer-down at px sees: the mouse fraction m, the viewport bounds
\* [s, e], and the two handle tests with a zone of 10 px of the minimap width
DownM(px) == MouseXFrac(variant, px, seqAreaW)
DownS == Div(scrollLeft, totalVirtualW)
DownE == Add(DownS, viewFraction)
DownZone == Rat(10, availableWidth - LABEL_WIDTH)
DownLeft(px) == Lt(MathAbs(Sub(DownM(px), DownS)), DownZone) /\ Lt(DownM(px), DownE)
DownRight(px) == Lt(MathAbs(Sub(DownM(px), DownE)), DownZone) /\ Lt(DownS, DownM(px))

\* C13 (as stated): on pointer-down, if |m - s| < handleZone and m < e the drag
\* becomes ResizingLeft, otherwise if |m - e| < handleZone and m > s it becomes
\* ResizingRight (handleZone: 10 px of the minimap width)
C13_HandleHit ==
    [][\A px \in MinimapDownPx : handleMinimapMouseDown(px) =>
        /\ DownLeft(px) => newSession'.dragType = "left"
        /\ (~DownLeft(px) /\ DownRight(px)) => newSession'.dragType = "right"]_vars

\* C13 (amended): the two handle tests decide the drag where the handles are
\* offered, which is always in the pan build and only while viewFraction <
\* 0.99 in the select build; there the drag is ResizingLeft exactly when the
\* left test holds and ResizingRight exactly when it fails and the right test
\* holds; where they are not offered the drag is Selecting
C13_HandleHitWhereOffered ==
    [][\A px \in MinimapDownPx : handleMinimapMouseDown(px) =>
        LET offered == variant = "pan" \/ Lt(viewFraction, Rat(99, 100))
        IN  /\ newSession'.dragType = "left" <=> (offered /\ DownLeft(px))
            /\ newSession'.dragType = "right" <=>
                    (offered /\ ~DownLeft(px) /\ DownRight(px))
            /\ ~offered => newSession'.dragType = "select"]_vars

\* a pointer-down inside both handle zones has started a ResizingLeft drag
C13_BothZonesLeft ==
    /\ lastOp = "down" /\ listeners # <<>>
    /\ newSession.dragType = "left"
    /\ LET m == Div(Whole(newSession.startClientX), newSession.mmSeqW)
       IN  /\ Lt(MathAbs(Sub(m, newSession.origEnd)), Div(Whole(10), newSession.mmSeqW))
           /\ Lt(newSession.origStart, m)

\* the viewport is effectively collapsed
Collapsed == Le(Rat(99, 100), viewFraction)

\* C14 (as stated): a pointer-down that hits no resize handle while
\* viewFraction >= 0.99 starts a Selecting drag whose SelectionRange is
\* initialised at the pointer, and while viewFraction >= 0.99 no pointer-down
\* starts a resize drag
C14_CollapsedSelects ==
    [][\A px \in MinimapDownPx : (handleMinimapMouseDown(px) /\ Collapsed) =>
        /\ newSession'.dragType \notin {"left", "right"}
        /\ ~(DownLeft(px) \/ DownRight(px)) =>
                /\ newSession'.dragType = "select"
                /\ selectionRange' = Some([start |-> DownM(px), end |-> DownM(px)])]_vars

\* C14 (amended): in the select build a pointer-down starts a Selecting drag,
\* whose SelectionRange is initialised at the pointer, exactly when
\* viewFraction >= 0.99 or no resize handle is hit, so that no resize drag
\* starts while viewFraction >= 0.99; the pan build has no Selecting drag and
\* never sets a SelectionRange, whatever viewFraction is
C14_SelectBuildSelects ==
    [][\A px \in MinimapDownPx : handleMinimapMouseDown(px) =>
        /\ variant = "select" =>
                /\ newSession'.dragType = "select" <=>
                        (Collapsed \/ ~(DownLeft(px) \/ DownRight(px)))
                /\ newSession'.dragType = "select" =>
                        selectionRange' = Some([start |-> DownM(px), end |-> DownM(px)])
                /\ Collapsed => newSession'.dragType \notin {"left", "right"}
        /\ variant = "pan" =>
                /\ newSession'.dragType # "select"
                /\ selectionRange' = selectionRange]_vars

\* the select build, fully zoomed out, has started a Selecting drag from a
\* pointer-down on the right edge, inside the right handle's zone
C14_SelectingAtHandle ==
    /\ lastOp = "down" /\ listeners # <<>>
    /\ variant = "select" /\ viewFraction = One
    /\ newSession.dragType = "select"
    /\ newSession.startClientX = 760
    /\ selectionRange = Some([start |-> One, end |-> One])

\* the pointer is inside the window [s, e]
DownInside(px) == Le(DownS, DownM(px)) /\ Le(DownM(px), DownE)

\* the pointer is on the centre handle, which is drawn at least 40 px wide
DownOnCentre(px) ==
    Lt(MathAbs(Sub(DownM(px), Div(Add(DownS, DownE), Whole(2)))),
       Div(MathMax(viewFraction, Rat(40, availableWidth - LABEL_WIDTH)), Whole(2)))

\* C15 (as stated): a pointer-down that hits no resize handle while the
\* viewport is not collapsed starts a Panning drag with the viewport unchanged
\* if m is in [s, e]; if m is outside the window the viewport is first moved
\* so that its centre is at m, width unchanged, and the Panning drag starts
\* from the jumped bounds
C15_PanOrJumpToPointer ==
    [][\A px \in MinimapDownPx :
        (handleMinimapMouseDown(px) /\ variant = "pan" /\ ~Collapsed
            /\ ~DownLeft(px) /\ ~DownRight(px)) =>
        /\ newSession'.dragType = "pan"
        /\ viewFraction' = viewFraction
        /\ IF DownInside(px)
           THEN /\ scrollLeft' = scrollLeft
                /\ newSession'.origStart = DownS /\ newSession'.origEnd = DownE
           ELSE /\ Add(StartFrac(availableWidth', scrollLeft', viewFraction'),
                       Div(viewFraction', Whole(2))) = DownM(px)
                /\ newSession'.origStart = StartFrac(availableWidth', scrollLeft', viewFraction')
                /\ newSession'.origEnd = Add(newSession'.origStart, viewFraction')]_vars

\* C15 (amended): in the pan build a pointer-down that hits no resize handle
\* starts a Panning drag; the viewport is unchanged if m is in [s, e] or on the
\* centre handle (at least 40 px wide around the window's centre); otherwise
\* the window is first moved, width unchanged, to start at
\* clamp(m - viewFraction / 2, 0, 1 - viewFraction), which centres it at m
\* unless that would leave [0, 1], and the Panning drag starts from the
\* jumped bounds.  The select build never starts a Panning drag
C15_PanOrClampedJump ==
    [][\A px \in MinimapDownPx : handleMinimapMouseDown(px) =>
        /\ (variant = "pan" /\ ~DownLeft(px) /\ ~DownRight(px)) =>
            /\ newSession'.dragType = "pan"
            /\ viewFraction' = viewFraction
            /\ IF DownInside(px) \/ DownOnCentre(px)
               THEN /\ scrollLeft' = scrollLeft
                    /\ ~newSession'.jumped
                    /\ newSession'.origStart = DownS /\ newSession'.origEnd = DownE
               ELSE LET jumped ==
                            MathMax(Zero, MathMin(Sub(One, viewFraction),
                                Sub(DownM(px), Div(viewFraction, Whole(2)))))
                    IN  /\ newSession'.jumped
                        /\ StartFrac(availableWidth', scrollLeft', viewFraction') = jumped
                        /\ newSession'.origStart = jumped
                        /\ newSession'.origEnd = Add(jumped, viewFraction)
        /\ variant = "select" => newSession'.dragType # "pan"]_vars

\* an outside click has moved the window so that its centre is at the pointer,
\* away from both ends of the alignment
C15_JumpCentred ==
    /\ lastOp = "down" /\ listeners # <<>>
    /\ variant = "pan" /\ newSession.jumped
    /\ Add(startFrac, Div(viewFraction, Whole(2)))
            = Div(Whole(newSession.startClientX), newSession.mmSeqW)
    /\ Lt(Zero, startFrac) /\ Lt(rawEndFrac, One)

\* one Panning session, of the mounted instance, is attached
solePanning ==
    /\ Len(listeners) = 1
    /\ Alive(listeners[1])
    /\ listeners[1].dragType = "pan"

\* C16: every pointer-move of a Panning drag commits bounds [s', e'] with
\* 0 <= s' <= e' <= 1 and e' - s' equal to the viewport width at drag start
C16_PanWithinUnit ==
    (lastOp = "move" /\ solePanning) =>
        /\ Le(Zero, startFrac)
        /\ Le(startFrac, rawEndFrac)
        /\ Le(rawEndFrac, One)
        /\ viewFraction = Sub(listeners[1].origEnd, listeners[1].origStart)

\* the alignment fraction under the pointer, px into the sequence area
FracUnder(px, aw, sl, vf) == Div(Add(sl, Whole(px)), TotalVirtualW(aw, vf))

\* C17 (as stated): a wheel zoom at pixelOffset with a factor sets viewFraction to
\* viewFraction * factor clamped to [0.005, 1] and recomputes scrollOffset so
\* that the alignment fraction under pixelOffset,
\* (scrollOffset + pixelOffset) / totalVirtualWidth, is the same after the zoom
C17_ZoomAtPoint ==
    [][\A px \in WheelPx, f \in {WheelInFactor, WheelOutFactor} : handleWheel(px, f) =>
        /\ viewFraction' = MathMax(Rat(5, 1000), MathMin(One, Mul(viewFraction, f)))
        /\ FracUnder(px, availableWidth', scrollLeft', viewFraction')
                = FracUnder(px, availableWidth, scrollLeft, viewFraction)]_vars

\* C17 (amended): a wheel zoom sets viewFraction to viewFraction * factor
\* clamped to [0.005, 1].  The select build recomputes scrollOffset so that
\* the alignment fraction under pixelOffset stays there and then clamps it to
\* [0, totalVirtualWidth - visibleWidth] of the new zoom level, so the fraction
\* is kept whenever that clamp does not apply.  The pan build leaves
\* scrollOffset as it is
C17_ZoomAtPointClamped ==
    [][\A px \in WheelPx, f \in {WheelInFactor, WheelOutFactor} : handleWheel(px, f) =>
        LET newTotalW == TotalVirtualW(availableWidth, viewFraction')
            anchored == Sub(Mul(FracUnder(px, availableWidth, scrollLeft, viewFraction),
                                newTotalW), Whole(px))
            maxSL == Sub(newTotalW, seqAreaW)
        IN  /\ viewFraction' = MathMax(Rat(5, 1000), MathMin(One, Mul(viewFraction, f)))
            /\ variant = "select" =>
                    /\ scrollLeft' = MathMax(Zero, MathMin(maxSL, anchored))
                    /\ (Le(Zero, anchored) /\ Le(anchored, maxSL)) =>
                            FracUnder(px, availableWidth', scrollLeft', viewFraction')
                                = FracUnder(px, availableWidth, scrollLeft, viewFraction)
            /\ variant = "pan" => scrollLeft' = scrollLeft]_vars

\* the select build has zoomed at the pointer to a scroll position strictly
\* inside the range of the new zoom level
C17_ZoomedInsideRange ==
    /\ lastOp = "wheel" /\ variant = "select"
    /\ Lt(Zero, scrollLeft)
    /\ Lt(scrollLeft, Sub(totalVirtualW, seqAreaW))

RECURSIVE Pow(_, _)
Pow(a, n) == IF n = 0 THEN One ELSE Mul(a, Pow(a, n - 1))

\* calls 1..n of the record are zoomIn calls, each starting from the
\* viewFraction the one before it left, the first from viewFraction 1
ZoomInRun(log, n) ==
    /\ log[1].before = One
    /\ \A k \in 1..n : log[k].op = "zoomIn"
    /\ \A k \in 2..n : log[k].before = log[k - 1].after

\* C18: after any sequence of zoomIn and zoomOut calls viewFraction is within
\* [0.005, 1]; from viewFraction 1, n consecutive zoomIn calls give
\* max(0.005, 0.75^n), three of them 0.421875; and a zoomIn at the floor
\* leaves viewFraction at 0.005
C18_ZoomRange ==
    zoomLog # Null =>
        LET log == zoomLog[1]
        IN  /\ \A k \in 1..Len(log) :
                    /\ Le(Rat(5, 1000), log[k].after) /\ Le(log[k].after, One)
                    /\ (log[k].op = "zoomIn" /\ log[k].before = Rat(5, 1000)) =>
                            log[k].after = Rat(5, 1000)
            /\ \A n \in 1..Len(log) : ZoomInRun(log, n) =>
                    /\ log[n].after = MathMax(Rat(5, 1000), Pow(Rat(75, 100), n))
                    /\ n = 3 => log[n].after = Rat(421875, 1000000)

\* three zoomIn calls have brought viewFraction down to the floor, where a
\* further zoomIn call was made
C18_ZoomInAtFloor ==
    /\ zoomLog # Null
    /\ \E k \in 2..Len(zoomLog[1]) :
            /\ zoomLog[1][k].op = "zoomIn"
            /\ zoomLog[1][k].before = Rat(5, 1000)
            /\ zoomLog[1][k - 1].op = "zoomIn"
            /\ Lt(Rat(5, 1000), zoomLog[1][k - 1].before)

\* calls k and k + 1 of the record are a zoomIn and a zoomOut, in either
\* order, the second starting where the first ended, neither of them clamped
UnclampedPair(log, k) ==
    /\ {log[k].op, log[k + 1].op} = {"zoomIn", "zoomOut"}
    /\ log[k + 1].before = log[k].after
    /\ \A i \in {k, k + 1} :
            IF log[i].op = "zoomIn"
            THEN Le(Rat(5, 1000), Mul(log[i].before, Rat(75, 100)))
            ELSE Le(Mul(log[i].before, Rat(133, 100)), One)

\* C19 (as stated): zoomOut divides viewFraction by 0.75, so zoomIn followed
\* by zoomOut, or zoomOut followed by zoomIn, restores the previous
\* viewFraction whenever neither call is clamped
C19_ZoomRoundTrip ==
    zoomLog # Null =>
        \A k \in 1..(Len(zoomLog[1]) - 1) : UnclampedPair(zoomLog[1], k) =>
            zoomLog[1][k + 1].after = zoomLog[1][k].before

\* C19 (amended): zoomOut multiplies viewFraction by 1.33, which is not the
\* reciprocal of 0.75, so zoomIn followed by zoomOut, or zoomOut followed by
\* zoomIn, leaves 0.75 * 1.33 = 0.9975 times the previous viewFraction
\* whenever neither call is clamped
C19_ZoomRoundTripShrinks ==
    zoomLog # Null =>
        \A k \in 1..(Len(zoomLog[1]) - 1) : UnclampedPair(zoomLog[1], k) =>
            /\ zoomLog[1][k + 1].after = Mul(zoomLog[1][k].before, Rat(9975, 10000))
            /\ Lt(zoomLog[1][k + 1].after, zoomLog[1][k].before)

\* an unclamped zoomOut was followed by an unclamped zoomIn
C19_OutThenIn ==
    /\ zoomLog # Null
    /\ \E k \in 1..(Len(zoomLog[1]) - 1) :
            /\ UnclampedPair(zoomLog[1], k)
            /\ zoomLog[1][k].op = "zoomOut"

ClampInt(x, lo, hi) == IF x < lo THEN lo ELSE IF hi < x THEN hi ELSE x

\* C20: in every reachable viewport state over an alignment of width L > 0,
\* startCol = clamp(floor(startFrac * L), 0, L - 1) and
\* endCol = clamp(ceil(endFrac * L) - 1, 0, L - 1) with
\* endFrac = min(1, startFrac + viewFraction), hence
\* 0 <= startCol <= endCol <= L - 1
C20_ColumnRange ==
    mounted =>
        /\ startCol = ClampInt(MathFloor(Mul(startFrac, Whole(seqLen))), 0, seqLen - 1)
        /\ endCol = ClampInt(MathCeil(Mul(MathMin(One, Add(startFrac, viewFraction)),
                                          Whole(seqLen))) - 1, 0, seqLen - 1)
        /\ 0 <= startCol /\ startCol <= endCol /\ endCol <= seqLen - 1

(* ---------------------------------------------------------------------- *)
(* Coordinate mapping                                                     *)
(* ---------------------------------------------------------------------- *)
\* the number of bases strictly before column g of a row
toUngapped(row, g) == Len(raw(SubSeq(row, 1, g)))

CallIdx == 1..Len(calls)

\* C21: for a fixed row mapUngappedToGapped is monotonic non-decreasing in its
\* index (u1 <= u2 implies toGapped(row, u1) <= toGapped(row, u2)), and for a
\* row without gap characters it returns i for every index i within the row.
C21_MapMonotone ==
    /\ \A i, j \in CallIdx :
            (calls[i].seq = calls[j].seq /\ calls[i].idx <= calls[j].idx)
                => calls[i].ret <= calls[j].ret
    /\ \A i \in CallIdx :
            (raw(calls[i].seq) = calls[i].seq /\ calls[i].idx \in 0..(Len(calls[i].seq) - 1))
                => calls[i].ret = calls[i].idx

\* two indices of one answer were mapped to columns on the two sides of a gap
C21_MappedAcrossGap ==
    \E i, j \in CallIdx :
        /\ calls[i].idx < calls[j].idx
        /\ calls[j].ret < Len(calls[j].seq)
        /\ calls[j].ret - calls[i].ret > calls[j].idx - calls[i].idx
        /\ data[1].seq = calls[i].seq

\* C22: round trip: for every row and every raw index u that does not hit the
\* end-of-sequence answer, g = toGapped(row, u) has exactly u bases of the row
\* before it (toUngapped(g) = u) and column g of the row holds a base.
C22_RoundTrip ==
    \A i \in CallIdx :
        calls[i].ret # Len(calls[i].seq) =>
            /\ calls[i].ret \in 0..(Len(calls[i].seq) - 1)
            /\ toUngapped(calls[i].seq, calls[i].ret) = calls[i].idx
            /\ calls[i].seq[calls[i].ret + 1] # Gap

\* an index was mapped to a column behind a gap
C22_MappedBehindGap ==
    \E i \in CallIdx :
        /\ calls[i].ret < Len(calls[i].seq)
        /\ calls[i].ret > calls[i].idx
        /\ calls[i].idx > 0

\* C23 as stated: the length of the row is returned if and only if the index
\* exceeds the row's raw length, and a column below it for every smaller index.
C23_EndIffExceeds ==
    \A i \in CallIdx :
        /\ calls[i].ret = Len(calls[i].seq) <=> calls[i].idx > Len(raw(calls[i].seq))
        /\ calls[i].idx <= Len(raw(calls[i].seq)) => calls[i].ret < Len(calls[i].seq)

\* C23: mapUngappedToGapped returns the length of the row it is given, as the
\* end-of-sequence answer and without failing, if and only if the index is at
\* least the row's raw length; for every smaller index it returns a column of
\* the row.
C23_EndIffNotBelow ==
    \A i \in CallIdx :
        /\ calls[i].ret = Len(calls[i].seq) <=> calls[i].idx >= Len(raw(calls[i].seq))
        /\ calls[i].idx < Len(raw(calls[i].seq))
                => calls[i].ret \in 0..(Len(calls[i].seq) - 1)

\* an answer named the raw length itself and an index beyond it
C23_EndOfSequence ==
    \E i, j \in CallIdx :
        /\ calls[i].idx = Len(raw(calls[i].seq)) /\ calls[i].ret = Len(calls[i].seq)
        /\ calls[j].idx > Len(raw(calls[j].seq)) /\ calls[j].ret = Len(calls[j].seq)
        /\ Len(raw(calls[i].seq)) < Len(calls[i].seq)

\* the raw span of the last answer that was mapped to the span m of columns
SpanMapped(d, from, m) ==
    /\ m = [start |-> d.start + mapUngappedToGapped(from.start, d.seq),
            end |-> d.start + mapUngappedToGapped(from.end, d.seq)]
    /\ \A c \in 0..(Len(d.seq) - 1) :
            d.seq[c + 1] # Gap =>
                (toUngapped(d.seq, c) \in from.start..(from.end - 1)
                    <=> d.start + c \in m.start..(m.end - 1))

\* C24: a primer span [start, end) in raw coordinates of the reference row's
\* visible slice is mapped to the columns [toGapped(start), toGapped(end))
\* shifted by the slice's start column; every base with raw index in
\* [start, end) lies in a column of the mapped span and no other base does.
C24_SpanMapping ==
    (primers # Null /\ calls # <<>>) =>
        /\ SpanMapped(data[1], [start |-> calls[1].idx, end |-> calls[2].idx], primers[1].p1)
        /\ SpanMapped(data[1], [start |-> calls[3].idx, end |-> calls[4].idx], primers[1].p2)

\* reference AC-GTAC with the raw span [2, 5) mapped to the columns [3, 6)
C24_ScenarioC ==
    /\ primers # Null /\ calls # <<>>
    /\ data[1] = [seq |-> ScenarioC, start |-> 0]
    /\ calls[1].idx = 2 /\ calls[2].idx = 5
    /\ primers[1].p1 = [start |-> 3, end |-> 6]

(* ---------------------------------------------------------------------- *)
(* Overlay paint and GC curve                                             *)
(* ---------------------------------------------------------------------- *)
\* the character a row holds at a column, a pad gap beyond its end
RowChar(row, col) == IF col \in 0..(Len(row) - 1) THEN row[col + 1] ELSE Gap
\* a base whatever its case
CaseFold(ch) ==
    IF ch \in {"A", "a"} THEN "A" ELSE IF ch \in {"C", "c"} THEN "C"
    ELSE IF ch \in {"G", "g"} THEN "G" ELSE IF ch \in {"T", "t"} THEN "T" ELSE ch
\* the columns at which a row holds a base, and the columns between its first
\* and its last base
Bases(row) == {c \in 0..(Len(row) - 1) : row[c + 1] # Gap}
Internal(row, col) == \E a, b \in Bases(row) : a <= col /\ col <= b

\* the criteria of the paint classes for cell (r, col); row 1 is the reference
PrimerCrit(r, col, pr) ==
    r = 1 /\ pr # Null /\ (InSpan(col, pr[1].p1) \/ InSpan(col, pr[1].p2))
InsertionCrit(r, col) ==
    r # 1 /\ RowChar(sequences[1], col) = Gap /\ RowChar(sequences[r], col) # Gap
DeletionCrit(r, col) ==
    r # 1 /\ RowChar(sequences[r], col) = Gap /\ Internal(sequences[r], col)
MismatchCrit(r, col) ==
    /\ r # 1
    /\ RowChar(sequences[r], col) # Gap /\ RowChar(sequences[1], col) # Gap
    /\ CaseFold(RowChar(sequences[r], col)) # CaseFold(RowChar(sequences[1], col))

\* the class a paint belongs to, and the class the priority order gives a cell
Class(paint) ==
    IF paint \in {"primer1", "primer2"} THEN "primer"
    ELSE IF paint \in {"indel", "mismatch"} THEN paint
    ELSE "plain"
ByPriority(r, col, pr) ==
    IF PrimerCrit(r, col, pr) THEN "primer"
    ELSE IF InsertionCrit(r, col) \/ DeletionCrit(r, col) THEN "indel"
    ELSE IF MismatchCrit(r, col) THEN "mismatch"
    ELSE "plain"

RowIdx == 1..Len(sequences)

\* C25: each cell receives exactly one paint class, chosen by the priority
\* primer > insertion/indel > mismatch > match; a cell that meets both the
\* insertion and the mismatch criteria is painted as insertion.  Stated for the
\* letters-mode canvas and the minimap.
C25_OnePaintByPriority ==
    canvas # Null =>
        \A r \in RowIdx :
            /\ canvas[1].mode = "letters" =>
                    \A col \in DOMAIN canvas[1].main[r] :
                        Class(canvas[1].main[r][col]) = ByPriority(r, col, canvas[1].primers)
            /\ \A col \in DOMAIN canvas[1].minimap[r] :
                    Class(canvas[1].minimap[r][col]) = ByPriority(r, col, canvas[1].primers)

\* C26: on the main canvas a cell is painted as primer exactly when it is a
\* cell of the reference row whose column lies in a mapped primer span,
\* whatever the cell holds (base or gap).
C26_PrimerPaint ==
    canvas # Null =>
        \A r \in RowIdx : \A col \in DOMAIN canvas[1].main[r] :
            Class(canvas[1].main[r][col]) = "primer" <=> PrimerCrit(r, col, canvas[1].primers)

\* C27: on the main canvas a gap cell of a non-reference row is painted as
\* indel if and only if its column lies between the row's first and last base;
\* leading and trailing pad gaps, and the gaps of a row without a base, are not
\* painted.
C27_IndelGapCells ==
    canvas # Null =>
        \A r \in RowIdx : \A col \in DOMAIN canvas[1].main[r] :
            (r # 1 /\ RowChar(sequences[r], col) = Gap) =>
                (canvas[1].main[r][col] = "indel" <=> Internal(sequences[r], col))

\* C28 as stated: on every surface a cell is painted as mismatch exactly when
\* it belongs to a non-reference row, both the row and the reference hold a
\* base at its column, and the bases differ whatever their case.
C28_MismatchPaint ==
    canvas # Null =>
        \A r \in RowIdx :
            /\ \A col \in DOMAIN canvas[1].main[r] :
                    canvas[1].main[r][col] = "mismatch" <=> MismatchCrit(r, col)
            /\ \A col \in DOMAIN canvas[1].minimap[r] :
                    canvas[1].minimap[r][col] = "mismatch" <=> MismatchCrit(r, col)

\* C28: wherever cells are painted by comparison with the reference (the select
\* build's canvas and minimap, the pan build's bars mode and minimap) a cell
\* is painted as mismatch exactly when it belongs to a non-reference row, both
\* sides hold a base and the bases differ whatever their case; the pan build's
\* letters mode colours every cell by its nucleotide and paints no mismatch.
C28_MismatchWhereCompared ==
    canvas # Null =>
        \A r \in RowIdx :
            /\ \A col \in DOMAIN canvas[1].main[r] :
                    IF variant = "pan" /\ canvas[1].mode = "letters"
                    THEN canvas[1].main[r][col] = "nucleotide"
                    ELSE canvas[1].main[r][col] = "mismatch" <=> MismatchCrit(r, col)
            /\ \A col \in DOMAIN canvas[1].minimap[r] :
                    canvas[1].minimap[r][col] = "mismatch" <=> MismatchCrit(r, col)

\* a row was drawn with a mismatch next to a base that differs from the
\* reference in case only
C28_MismatchBesideCaseDifference ==
    /\ canvas # Null
    /\ \E r \in RowIdx : \E c1, c2 \in DOMAIN canvas[1].main[r] :
            /\ canvas[1].main[r][c1] = "mismatch"
            /\ RowChar(sequences[r], c2) = "a" /\ RowChar(sequences[1], c2) = "A"
            /\ canvas[1].main[r][c2] # "mismatch"
            /\ canvas[1].minimap[r][c1] = "mismatch"

\* the numbers of bases and of G or C bases the rows hold at a column
NonGapCount(col) == Cardinality({r \in RowIdx : RowChar(sequences[r], col) # Gap})
GcCount(col) ==
    Cardinality({r \in RowIdx : CaseFold(RowChar(sequences[r], col)) \in {"G", "C"}})

\* C29: the GC curve has exactly L entries, L the greatest row length, and
\* entry col is the number of G or C characters over the number of non-gap
\* characters of all rows at that column, whatever their case, shorter rows
\* counting as padded with gaps (0 where the column holds no base).
C29_GcCurve ==
    canvas # Null =>
        /\ Len(canvas[1].gc) = SeqLenOf(sequences)
        /\ \A r \in RowIdx : Len(sequences[r]) <= Len(canvas[1].gc)
        /\ \A col \in 0..(Len(canvas[1].gc) - 1) :
                IF NonGapCount(col) > 0
                THEN Mul(canvas[1].gc[col + 1], Whole(NonGapCount(col))) = Whole(GcCount(col))
                ELSE canvas[1].gc[col + 1] = Zero

\* a curve with an entry of one half, and an entry beyond the end of the
\* reference row that the other row alone decides
C29_HalfAndPadded ==
    /\ canvas # Null
    /\ \E c1, c2 \in 0..(Len(canvas[1].gc) - 1) :
            /\ canvas[1].gc[c1 + 1] = Rat(1, 2)
            /\ Len(sequences[1]) <= c2 /\ canvas[1].gc[c2 + 1] = One

\* C30 as stated: every GC fraction lies in [0, 1] and is 0 exactly when the
\* column has no non-gap base.
C30_GcZeroIffEmpty ==
    canvas # Null =>
        \A col \in 0..(Len(canvas[1].gc) - 1) :
            /\ Le(Zero, canvas[1].gc[col + 1]) /\ Le(canvas[1].gc[col + 1], One)
            /\ canvas[1].gc[col + 1] = Zero <=> NonGapCount(col) = 0

\* C30: every GC fraction lies in [0, 1] and is 0 exactly when the column
\* holds no G or C base, in particular when it holds no base at all.
C30_GcZeroIffNoGC ==
    canvas # Null =>
        \A col \in 0..(Len(canvas[1].gc) - 1) :
            /\ Le(Zero, canvas[1].gc[col + 1]) /\ Le(canvas[1].gc[col + 1], One)
            /\ canvas[1].gc[col + 1] = Zero <=> GcCount(col) = 0
            /\ NonGapCount(col) = 0 => canvas[1].gc[col + 1] = Zero

\* a curve with a zero entry at a column of bases and one at a column of gaps
C30_ZeroWithBases ==
    /\ canvas # Null
    /\ \E c1, c2 \in 0..(Len(canvas[1].gc) - 1) :
            /\ canvas[1].gc[c1 + 1] = Zero /\ NonGapCount(c1) = 2
            /\ canvas[1].gc[c2 + 1] = Zero /\ NonGapCount(c2) = 0


(* ---------------------------------------------------------------------- *)
(* The rows parsed from the alignment text                                *)
(* ---------------------------------------------------------------------- *)
\* the lines of t that begin with the record marker, as positions in t
MarkerLines(t) == {i \in 1..Len(t) : t[i] # <<>> /\ t[i][1] = ">"}

\* the k-th of them in input order
NthMarkerLine(t, k) ==
    CHOOSE i \in MarkerLines(t) : Cardinality({j \in MarkerLines(t) : j <= i}) = k

\* the last line before the next marker line after line i, or the last line
LastLineOfRecord(t, i) ==
    IF \E j \in MarkerLines(t) : j > i
    THEN (CHOOSE j \in MarkerLines(t) : j > i /\ \A h \in MarkerLines(t) : h > i => j <= h) - 1
    ELSE Len(t)

\* the lines from..to of t, each trimmed, one after the other
RECURSIVE TrimmedLines(_, _, _)
TrimmedLines(t, from, to) ==
    IF from > to THEN <<>> ELSE Trim(t[from]) \o TrimmedLines(t, from + 1, to)

\* the rows the text t stands for, read line by line
RowsOf(t) ==
    [k \in 1..Cardinality(MarkerLines(t)) |->
        [id |-> Trim(Tail(t[NthMarkerLine(t, k)])),
         seq |-> TrimmedLines(t, NthMarkerLine(t, k) + 1, LastLineOfRecord(t, NthMarkerLine(t, k)))]]

\* the rows the viewer holds, label and sequence together
ParsedRows == [r \in 1..Len(sequences) |-> [id |-> ids[r], seq |-> sequences[r]]]

\* the lines of the text the viewer holds, the white space around the text cut
InputLines == TrimSplit(text[1])

\* C31: the rows parsed from the alignment text are, in input order, one row
\* for every line that begins with '>', labelled by the trimmed rest of that
\* line and holding the trimmed lines that follow it, up to the next such line
\* or the end of the text, one after the other.
C31_RowPerMarkerLine ==
    text # Null => ParsedRows = RowsOf(InputLines)

\* C32: a blank text, or one without a line that begins with '>', parses to no
\* row, and without rows the alignment length is 0, the GC curve is empty,
\* there are no selection statistics, nothing is painted on a canvas and
\* nothing is handed to onVisibleQueryChange, through every render and effect.
C32_NoRowsNoOp ==
    (text # Null /\ MarkerLines(InputLines) = {}) =>
        /\ sequences = <<>> /\ ids = <<>>
        /\ seqLen = 0
        /\ gcContent = <<>>
        /\ selectionStats = Null
        /\ canvas = Null
        /\ visibleQuery = Null
        /\ cellW = One /\ startCol = 0 /\ endCol = -1

\* C32 witness: a text of sequence lines without a marker line is mounted and
\* the effects of its render have run
C32_MarkerlessSettled ==
    /\ text # Null /\ MarkerLines(InputLines) = {}
    /\ \E i \in 1..Len(InputLines) : InputLines[i] # <<>>
    /\ mounted /\ ~effectsPending

(* ---------------------------------------------------------------------- *)
(* Degenerate geometry                                                    *)
(* ---------------------------------------------------------------------- *)
\* C33: in every render of the viewer the draw's column bounds are finite
\* numbers, and where the sequence area has no width or the alignment no
\* column the cell width is the default 1 (and startFrac, without width, the
\* default 0): no quotient is taken over zero.
C33_DegenerateDefaults ==
    (mounted /\ sequences # <<>>) =>
        /\ firstColKind = "finite" /\ lastColKind = "finite"
        /\ (seqAreaW = Zero \/ seqLen = 0) => cellW = One
        /\ seqAreaW = Zero => startFrac = Zero

(* ---------------------------------------------------------------------- *)
(* Selection statistics                                                   *)
(* ---------------------------------------------------------------------- *)
\* the visible columns at which the reference row holds a character
VisibleRefCols == {col \in startCol..endCol : col < Len(sequences[1])}
\* how many of them hold the base b, in either case
VisibleCount(b) == Cardinality({col \in VisibleRefCols : CaseFold(sequences[1][col + 1]) = b})
VisibleNonGap == Cardinality({col \in VisibleRefCols : sequences[1][col + 1] # Gap})

\* C34: over an alignment with rows, in every viewport state, the selection
\* statistics hold the counts of A, T, G and C of the reference row over the
\* columns startColumn..endColumn whatever the case, total is the number of
\* non-gap characters there, GC% is 100 (G + C) / total within [0, 100], and
\* GC% is 0 when total is 0.
C34_SelectionStats ==
    (mounted /\ sequences # <<>>) =>
        /\ selectionStats # Null
        /\ LET st == selectionStats[1]
           IN  /\ st.a = VisibleCount("A") /\ st.t = VisibleCount("T")
               /\ st.g = VisibleCount("G") /\ st.c = VisibleCount("C")
               /\ st.total = VisibleNonGap
               /\ Le(Zero, st.gcPct) /\ Le(st.gcPct, Whole(100))
               /\ st.total = 0 => st.gcPct = Zero
               /\ st.total > 0 => st.gcPct = Rat(100 * (st.g + st.c), st.total)

\* C34 witness: the viewport was zoomed and scrolled away from column 0, and
\* the visible part of the reference row holds a lower-case g and a gap
C34_ZoomedAndScrolled ==
    /\ mounted /\ sequences # <<>> /\ ~effectsPending
    /\ startCol > 0 /\ endCol < Len(sequences[1])
    /\ selectionStats[1].g = 1 /\ selectionStats[1].total = 1
    /\ \E col \in VisibleRefCols : sequences[1][col + 1] = Gap
    /\ \E col \in VisibleRefCols : sequences[1][col + 1] = "g"

(* ---------------------------------------------------------------------- *)
(* The three painters                                                     *)
(* ---------------------------------------------------------------------- *)
\* the class the painter of a surface gives cell (r, col) under the primers
\* prop of this render
ClassOn(surface, r, col) ==
    Class(Paint(surface, variant, sequences, r, col,
                IF variant = "select" THEN primers ELSE Null))

\* C35: for every alignment, primer spans, row and column, the paint class
\* (primer, indel, mismatch, none) is the same in the detail view's bars mode,
\* in its letters mode and in the minimap.
C35_PaintersAgree ==
    (mounted /\ sequences # <<>>) =>
        \A r \in RowIdx : \A col \in 0..(seqLen - 1) :
            /\ ClassOn("bars", r, col) = ClassOn("letters", r, col)
            /\ ClassOn("letters", r, col) = ClassOn("minimap", r, col)

(* ---------------------------------------------------------------------- *)
(* The mode buttons against the auto-switch effect                        *)
(* ---------------------------------------------------------------------- *)
\* C36: once the effects that follow a press of the Overview or the Sequence
\* button have settled, with no input since, the display mode is the one the
\* button stands for (bars for Overview, letters for Sequence), whatever the
\* alignment length.
C36_ChosenModeKept ==
    (mounted /\ ~effectsPending) =>
        /\ lastOp = "bars" => viewMode = "bars"
        /\ lastOp = "letters" => viewMode = "letters"

(* ---------------------------------------------------------------------- *)
(* The range of viewFraction                                              *)
(* ---------------------------------------------------------------------- *)
\* C37: whichever handler wrote it last (zoomIn, zoomOut, wheel zoom, zoom
\* slider, resize drag, selection commit, Overview button, Sequence button),
\* viewFraction lies within [0.005, 1], for every alignment length.
C37_ViewFractionRange ==
    mounted => (Le(MinViewFraction, viewFraction) /\ Le(viewFraction, One))

(* ---------------------------------------------------------------------- *)
(* Scroll events during a minimap drag                                    *)
(* ---------------------------------------------------------------------- *)
\* a drag session of the mounted viewer is live: its listeners are attached
SessionLive == \E i \in 1..Len(listeners) : Alive(listeners[i])

RequestStep ==
    \/ \E i \in 1..Len(requests), len \in SeqLens : SearchResponse(i, len)
    \/ \E i \in 1..Len(requests) : SearchDone(i)
    \/ \E i \in 1..Len(requests) : SearchFail(i)

\* C39: after Reset was invoked with a search request in flight, the late
\* response or failure of that request changes nothing (step stays 'input',
\* the hits, their meta data and the alignment stay empty until a new search
\* is started), and at most one search request is in flight at any time.
C39_ResetSilencesRequest ==
    /\ [](Len(requests) <= 1)
    /\ [][(RequestStep /\ step = "input") =>
                UNCHANGED <<step, blastHits, blastMeta, alignment>>]_vars

(* ---------------------------------------------------------------------- *)
(* QueryViewer: primer requests out of order                              *)
(* ---------------------------------------------------------------------- *)
\* no timer is pending and no request is unanswered
FetchSettled == fetches # Null /\ fetches[1] = <<>> /\ debounce = Null

\* C40: once all primer requests have settled, the spans reported through
\* onPrimersUpdate are those of the answer to the most recent request, made
\* for the current parameters and mapped on the current visible slice; they
\* are null while the panel is closed and after an error.
C40_LatestRequestWins ==
    FetchSettled =>
        /\ ~showMoligizer => primers = Null
        /\ answered = Null => primers = Null
        /\ primers # Null =>
                /\ answered = Some(desiredLen)
                /\ \A k \in 1..Len(calls) : calls[k].seq = data[1].seq
                /\ primers[1].p1.start = data[1].start + calls[1].ret
====
